---- MODULE Spec2Model ----
(***************************************************************************)
(* Model of the Job_Analysis repository: the CareerResearchTool of         *)
(* src/main.py (query parser, source fetchers, report aggregation, CLI     *)
(* loop) and the JobMarketAnalyzer of src/job_analyzer.py (fetchers and    *)
(* classifiers).                                                           *)
(*                                                                         *)
(* Python strings that the code splits, trims or joins are sequences of    *)
(* one-character strings; labels the code only compares are TLA+ strings.  *)
(***************************************************************************)
EXTENDS Integers, Sequences, FiniteSets, TLC

(***************************************************************************)
(* Bounds of the model                                                     *)
(***************************************************************************)
\* longest argument of parse_query explored by the parser specification
MaxQueryLen == 6
\* longest line typed at the prompt of main()
MaxLineLen == 2
\* most items (containers, feed entries, posts) in one response
MaxItems == 1
\* most articles handed to analyze_trend_content, and most words of one snippet
MaxArticles == 2
MaxSnippetWords == 2
\* most generate_career_report calls that a behaviour adds to the session it starts in
MaxQueries == 1

(***************************************************************************)
(* Strings                                                                 *)
(***************************************************************************)
Chars == {"a", " ", ","}

RECURSIVE StringsUpTo(_)
StringsUpTo(n) ==
    IF n = 0 THEN {<<>>}
    ELSE LET shorter == StringsUpTo(n - 1)
         IN  shorter \cup {Append(s, c) : s \in {t \in shorter : Len(t) = n - 1}, c \in Chars}

IsSpace(c) == c = " "

UpperCase ==
    <<"A", "B", "C", "D", "E", "F", "G", "H", "I", "J", "K", "L", "M", "N", "O", "P", "Q", "R",
      "S", "T", "U", "V", "W", "X", "Y", "Z">>

LowerCase ==
    <<"a", "b", "c", "d", "e", "f", "g", "h", "i", "j", "k", "l", "m", "n", "o", "p", "q", "r",
      "s", "t", "u", "v", "w", "x", "y", "z">>

\* str.lower() on one character
LowerChar(c) ==
    IF \E i \in 1..Len(UpperCase) : UpperCase[i] = c
    THEN LowerCase[CHOOSE i \in 1..Len(UpperCase) : UpperCase[i] = c]
    ELSE c

Lower(s) == [i \in 1..Len(s) |-> LowerChar(s[i])]

RECURSIVE LStrip(_)
LStrip(s) == IF s # <<>> /\ IsSpace(Head(s)) THEN LStrip(Tail(s)) ELSE s

RECURSIVE RStrip(_)
RStrip(s) ==
    IF s # <<>> /\ IsSpace(s[Len(s)]) THEN RStrip(SubSeq(s, 1, Len(s) - 1)) ELSE s

\* a trim that removes one blank at each end only
StripOnce(s) ==
    LET l == IF s # <<>> /\ IsSpace(Head(s)) THEN Tail(s) ELSE s
    IN  IF l # <<>> /\ IsSpace(l[Len(l)]) THEN SubSeq(l, 1, Len(l) - 1) ELSE l

\* str.strip()
Strip(s) == RStrip(LStrip(s))

\* w in s, for two strings
IsSubstring(w, s) == \E i \in 0..(Len(s) - Len(w)) : SubSeq(s, i + 1, i + Len(w)) = w

\* str.split(): the maximal runs of characters that are not blanks
RECURSIVE SplitWords(_, _, _)
SplitWords(s, i, cur) ==
    LET done == IF cur = <<>> THEN <<>> ELSE <<cur>>
    IN  IF i > Len(s) THEN done
        ELSE IF IsSpace(s[i]) THEN done \o SplitWords(s, i + 1, <<>>)
        ELSE SplitWords(s, i + 1, Append(cur, s[i]))

Words(s) == SplitWords(s, 1, <<>>)

\* ' '.join(parts)
RECURSIVE JoinWithBlank(_)
JoinWithBlank(parts) ==
    IF parts = <<>> THEN <<>>
    ELSE IF Len(parts) = 1 THEN parts[1]
    ELSE parts[1] \o <<" ">> \o JoinWithBlank(Tail(parts))

\* str.split(','): always at least one part
RECURSIVE SplitFrom(_, _, _)
SplitFrom(s, i, cur) ==
    IF i > Len(s) THEN <<cur>>
    ELSE IF s[i] = "," THEN <<cur>> \o SplitFrom(s, i + 1, <<>>)
    ELSE SplitFrom(s, i + 1, Append(cur, s[i]))

Split(s) == SplitFrom(s, 1, <<>>)

\* ','.join(parts)
RECURSIVE Join(_)
Join(parts) ==
    IF parts = <<>> THEN <<>>
    ELSE IF Len(parts) = 1 THEN parts[1]
    ELSE parts[1] \o <<",">> \o Join(Tail(parts))

\* str.replace(' ', '_')
SpacesToUnderscores(s) == [i \in 1..Len(s) |-> IF s[i] = " " THEN "_" ELSE s[i]]

\* no default for the year
NoDefaultYear == <<>>

DefaultYear == <<"2", "0", "2", "5">>

(***************************************************************************)
(* CareerResearchTool.parse_query                                          *)
(***************************************************************************)
\* a parser that reads the year from the third field of a three-field query
parse_query_year_third(query) ==
    LET parts == Split(query)
        degree == IF Len(parts) > 0 THEN Strip(parts[1]) ELSE <<>>
        experience == IF Len(parts) > 1 THEN Strip(parts[2]) ELSE <<>>
        skills == IF Len(parts) > 2 THEN Strip(parts[3]) ELSE <<>>
        job_market == IF Len(parts) > 3 THEN Strip(parts[4]) ELSE <<>>
        year == IF Len(parts) > 4 THEN Strip(parts[5])
                ELSE IF Len(parts) = 3 THEN Strip(parts[3]) ELSE DefaultYear
    IN  <<degree, experience, skills, job_market, year>>

parse_query(query) ==
    LET parts == Split(query)
        degree == IF Len(parts) > 0 THEN Strip(parts[1]) ELSE <<>>
        experience == IF Len(parts) > 1 THEN Strip(parts[2]) ELSE <<>>
        skills == IF Len(parts) > 2 THEN Strip(parts[3]) ELSE <<>>
        job_market == IF Len(parts) > 3 THEN Strip(parts[4]) ELSE <<>>
        year == IF Len(parts) > 4 THEN Strip(parts[5]) ELSE DefaultYear
    IN  <<degree, experience, skills, job_market, year>>

(***************************************************************************)
(* Responses of the external sources                                       *)
(*                                                                         *)
(* An outcome of one fetch is either an exception raised inside the        *)
(* fetcher's try block or a response: a status, a body shape ("ok", or     *)
(* "bad" for a body that is not the JSON listing the code indexes) and the *)
(* items found in the body.  An item stands for a div.g container of an    *)
(* HTML page, an entry of a feed or a child of a JSON listing: title and   *)
(* link say whether the h3 / title and the a / link are there ("nohref":   *)
(* an a element without href), text is the item's text as a sequence of    *)
(* words.                                                                  *)
(***************************************************************************)
\* str.lower() on a word
LowerWord(t) == IF t = "Growth" THEN "growth" ELSE t

\* w in t, for a keyword w and a lower-cased word t
SubWord(w, t) == t = w \/ (w = "demand" /\ t = "demanding")

\* w in text.lower(): the keywords of the code that the model's words can match hold no
\* blank, so a match lies inside one word
Contains(text, w) == \E i \in 1..Len(text) : SubWord(w, LowerWord(text[i]))

ItemTexts == {<<>>, <<"python">>, <<"ai", "communication">>, <<"Growth", "decline">>}

Items == [title : {"none", "t"}, link : {"none", "nohref", "u"}, text : ItemTexts]

\* the items the sources hand to the report pipeline of the CLI model: containers
\* with or without title and link, entries and posts with both, containers with text
PlainItems ==
    {it \in Items : it.text = <<>> /\ it.link # "nohref" /\ (it.title = "none" <=> it.link = "none")}

FeedItems == {it \in PlainItems : it.title = "t"}

TextItems ==
    {it \in Items : it.title = "t" /\ it.link = "u"
                    /\ it.text \in {<<>>, <<"python">>, <<"ai", "communication">>}}

RECURSIVE SeqsUpTo(_, _)
SeqsUpTo(S, n) ==
    IF n = 0 THEN {<<>>}
    ELSE LET shorter == SeqsUpTo(S, n - 1)
         IN  shorter \cup {Append(s, x) : s \in {t \in shorter : Len(t) = n - 1}, x \in S}

Raise == [kind |-> "raise", status |-> 0, shape |-> "ok", items |-> <<>>]

Responses(S, n) ==
    [kind : {"response"}, status : {200, 503}, shape : {"ok", "bad"}, items : SeqsUpTo(S, n)]

Outcomes(S, n) == {Raise} \cup Responses(S, n)

Min(a, b) == IF a < b THEN a ELSE b

\* xs[:n]
Take(xs, n) == SubSeq(xs, 1, Min(n, Len(xs)))

\* [F(x) for x in xs if P(x)]
MapSelect(xs, P(_), F(_)) ==
    LET sel == SelectSeq(xs, P) IN [i \in 1..Len(sel) |-> F(sel[i])]

(***************************************************************************)
(* CareerResearchTool: the fetchers                                        *)
(***************************************************************************)
NewsCap == 10
ScrapeCap == 5
RedditCap == 8
SkillCap == 3

\* entry.title if hasattr(entry, 'title') else ''
AttrOrEmpty(v) == IF v = "none" THEN "" ELSE v

\* an except branch that returns None
search_google_news_none(o) ==
    IF o.kind = "raise" THEN <<"None">>
    ELSE LET article(e) == [title |-> AttrOrEmpty(e.title), link |-> AttrOrEmpty(e.link),
                            tag |-> "news"]
         IN  MapSelect(Take(o.items, NewsCap), LAMBDA e : TRUE, article)

search_google_news(o) ==
    IF o.kind = "raise" THEN <<>>
    ELSE LET article(e) == [title |-> AttrOrEmpty(e.title), link |-> AttrOrEmpty(e.link),
                            tag |-> "news"]
         IN  MapSelect(Take(o.items, NewsCap), LAMBDA e : TRUE, article)

\* link_elem.get('href'): None when the a element has no href
HrefOrNone(v) == IF v = "nohref" THEN "None" ELSE v

\* the Google-scraping fetchers of main.py: the response status is not read
ScrapeNoCatch(o, tag) ==
    LET found(c) == c.title # "none" /\ c.link # "none"
        record(c) == [title |-> c.title, link |-> HrefOrNone(c.link), tag |-> tag]
    IN  MapSelect(Take(o.items, ScrapeCap), found, record)

\* an except branch that reports the failure as an entry of the list
ScrapeErrorEntry(o, tag) ==
    IF o.kind = "raise" THEN <<[title |-> "error", link |-> "", tag |-> tag]>>
    ELSE ScrapeNoCatch(o, tag)

\* try: ... return insights / except Exception: return []
Scrape(o, tag) == IF o.kind = "raise" THEN <<>> ELSE ScrapeNoCatch(o, tag)

search_indeed_insights(o) == Scrape(o, "indeed")

search_linkedin_insights(o) == Scrape(o, "LinkedIn Insights")

search_coursera_skills(o) == Scrape(o, "Coursera")

search_glassdoor_salaries(o) == Scrape(o, "Glassdoor")

search_quora_answers(o) == Scrape(o, "Quora")

search_reddit_career_advice(o) ==
    IF o.kind = "raise" THEN <<>>
    ELSE IF o.status = 200
    THEN IF o.shape = "bad" THEN <<>>   \* response.json() or data['data'] raises: caught
         ELSE LET post(c) == [title |-> AttrOrEmpty(c.title), link |-> AttrOrEmpty(c.link),
                              tag |-> "reddit"]
              IN  MapSelect(Take(o.items, RedditCap), LAMBDA c : TRUE, post)
    ELSE <<>>

\* the value {} of an empty Python mapping and the mapping of the three skill lists
EmptyMapping == [has_keys |-> FALSE, high_demand_skills |-> <<>>, emerging_skills |-> <<>>,
                 traditional_skills |-> <<>>]

EmergingWords == {"ai", "machine learning", "data science", "cloud"}
HighDemandWords == {"python", "java", "javascript", "sql"}
TraditionalWords == {"communication", "leadership", "problem solving"}

analyze_skill_trends(o) ==
    IF o.kind = "raise" THEN EmptyMapping
    ELSE LET results == Take(o.items, SkillCap)
             high(c) == \E w \in HighDemandWords : Contains(c.text, w)
             emerging(c) == \E w \in EmergingWords : Contains(c.text, w)
             traditional(c) == \E w \in TraditionalWords : Contains(c.text, w)
         IN  [has_keys |-> TRUE,
              high_demand_skills |->
                  MapSelect(results, high, LAMBDA c : "Programming Languages"),
              emerging_skills |->
                  MapSelect(results, emerging, LAMBDA c : "AI/ML Technologies"),
              traditional_skills |->
                  MapSelect(results, traditional, LAMBDA c : "Soft Skills")]

(***************************************************************************)
(* CareerResearchTool: self.results and the summary                        *)
(*                                                                         *)
(* A Python dict is a record of its keys in insertion order and the value  *)
(* under each key; a key that is not in keys has no value (map holds a     *)
(* placeholder there that no operator reads).                              *)
(***************************************************************************)
ListKeys ==
    <<"career_opportunities", "required_skills", "job_market_trends", "salary_information",
      "learning_resources", "community_discussions", "linkedin_insights", "quora_insights">>

\* an order that starts with the skill trends
FetchOrderSkillTrendsFirst == <<"skill_trends">> \o ListKeys

\* the order in which generate_career_report fetches and stores
FetchOrder == ListKeys \o <<"skill_trends">>

Range(xs) == {xs[i] : i \in 1..Len(xs)}

NoSummary ==
    [degree |-> <<>>, experience_level |-> <<>>, skills_focus |-> <<>>, job_market |-> <<>>,
     target_year |-> <<>>, total_sources_found |-> 0, market_outlook |-> "",
     career_areas_covered |-> <<>>, key_findings |-> <<>>]

\* defaultdict(dict) right after __init__
EmptyDict ==
    [keys |-> <<>>,
     map |-> [k \in Range(FetchOrder) \cup {"summary"} |->
                 IF k = "summary" THEN NoSummary
                 ELSE IF k = "skill_trends" THEN EmptyMapping ELSE <<>>]]

Has(d, k) == k \in Range(d.keys)

\* d[k] = v
DictSet(d, k, v) ==
    [keys |-> IF Has(d, k) THEN d.keys ELSE Append(d.keys, k),
     map |-> [d.map EXCEPT ![k] = v]]

\* d.get(k, default)
DictGet(d, k, default) == IF Has(d, k) THEN d.map[k] ELSE default

RECURSIVE SumLen(_, _)
\* a count that also leaves quora_insights out
SumLenWrongKey(d, ks) ==
    IF ks = <<>> THEN 0
    ELSE (IF Head(ks) \in {"summary", "skill_trends", "quora_insights"} THEN 0
          ELSE Len(d.map[Head(ks)]))
         + SumLen(d, Tail(ks))

\* sum(len(items) for key, items in d.items() if key not in ['summary', 'skill_trends'])
SumLen(d, ks) ==
    IF ks = <<>> THEN 0
    ELSE (IF Head(ks) \in {"summary", "skill_trends"} THEN 0 ELSE Len(d.map[Head(ks)]))
         + SumLen(d, Tail(ks))

TotalSources(d) == SumLen(d, d.keys)

OutlookVeryPositive == 15
OutlookPositive == 8
OutlookModerate == 3

\* thresholds compared with >= instead of >
MarketOutlookInclusive(n) ==
    IF n >= OutlookVeryPositive THEN "Very Positive"
    ELSE IF n >= OutlookPositive THEN "Positive"
    ELSE IF n >= OutlookModerate THEN "Moderate"
    ELSE "Limited Data"

MarketOutlook(n) ==
    IF n > OutlookVeryPositive THEN "Very Positive"
    ELSE IF n > OutlookPositive THEN "Positive"
    ELSE IF n > OutlookModerate THEN "Moderate"
    ELSE "Limited Data"

Finding(line, n, skills) == [line |-> line, n |-> n, skills |-> skills]

\* findings with the line of the high-demand skills last, its list counted
ExtractKeyFindingsSkillsLast(d) ==
    LET career_articles == DictGet(d, "career_opportunities", <<>>)
        skill_trends == DictGet(d, "skill_trends", EmptyMapping)
        courses == DictGet(d, "learning_resources", <<>>)
        discussions == DictGet(d, "community_discussions", <<>>)
    IN  (IF career_articles # <<>>
         THEN <<Finding("career opportunity articles", Len(career_articles), <<>>)>>
         ELSE <<>>)
        \o (IF courses # <<>>
            THEN <<Finding("Available learning resources", Len(courses), <<>>)>>
            ELSE <<>>)
        \o (IF discussions # <<>>
            THEN <<Finding("Active community discussions", Len(discussions), <<>>)>>
            ELSE <<>>)
        \o (IF skill_trends.has_keys /\ skill_trends.high_demand_skills # <<>>
            THEN <<Finding("High demand skills identified",
                           Len(skill_trends.high_demand_skills), <<>>)>>
            ELSE <<>>)

_extract_key_findings(d) ==
    LET career_articles == DictGet(d, "career_opportunities", <<>>)
        skill_trends == DictGet(d, "skill_trends", EmptyMapping)
        courses == DictGet(d, "learning_resources", <<>>)
        discussions == DictGet(d, "community_discussions", <<>>)
    IN  (IF career_articles # <<>>
         THEN <<Finding("career opportunity articles", Len(career_articles), <<>>)>>
         ELSE <<>>)
        \o (IF skill_trends.has_keys /\ skill_trends.high_demand_skills # <<>>
            THEN <<Finding("High demand skills identified", 0, skill_trends.high_demand_skills)>>
            ELSE <<>>)
        \o (IF courses # <<>>
            THEN <<Finding("Available learning resources", Len(courses), <<>>)>>
            ELSE <<>>)
        \o (IF discussions # <<>>
            THEN <<Finding("Active community discussions", Len(discussions), <<>>)>>
            ELSE <<>>)

OpportunityIndicators(d) ==
    Len(DictGet(d, "career_opportunities", <<>>))
    + Len(DictGet(d, "job_market_trends", <<>>))
    + Len(DictGet(d, "salary_information", <<>>))

\* the report_generated timestamp is left out: no operator of the model reads it
_generate_career_summary(d, f) ==
    [degree |-> f[1], experience_level |-> f[2], skills_focus |-> f[3], job_market |-> f[4],
     target_year |-> f[5],
     total_sources_found |-> TotalSources(d),
     market_outlook |-> MarketOutlook(OpportunityIndicators(d)),
     career_areas_covered |-> d.keys,
     key_findings |-> _extract_key_findings(d)]

(***************************************************************************)
(* State                                                                   *)
(***************************************************************************)
VARIABLES
    pc,          \* position of main(): "prompt", "rejected", "fetch", "summary", "display",
                 \* "asksave", "saved", "failed" (in the except Exception handler),
                 \* "exited" (after the break on an exit token), "interrupted" (after the
                 \* break of the except KeyboardInterrupt handler)
    idx,         \* index in FetchOrder of the next source generate_career_report fetches
    user_input,  \* main's local user_input (the stripped line) during an iteration
    fields,      \* main's locals degree, experience, skills, job_market, year during an iteration
    results,     \* research_tool.results
    files,       \* the files written so far
    calls,       \* number of generate_career_report calls started
    lastFailed,  \* the source whose fetch raised last in this iteration ("none" if none did)
    report,      \* main's local report: whether generate_career_report has returned it, and
                 \* the contents it had on return (the object itself is self.results)
    op,          \* the function that a function-level specification applies
    arg,         \* its argument
    ret,         \* its return value, once applied
    applied      \* whether it has been applied

cliVars == <<pc, idx, user_input, fields, results, files, calls, lastFailed, report>>

fnVars == <<op, arg, ret, applied>>

vars == <<pc, idx, user_input, fields, results, files, calls, lastFailed, report, op, arg, ret,
          applied>>

(***************************************************************************)
(* main(): the CLI loop around one CareerResearchTool                      *)
(***************************************************************************)
ExitTokens == {<<"q", "u", "i", "t">>, <<"e", "x", "i", "t">>, <<"q">>}

\* lines typed at the prompt: every short line, some spellings of the exit tokens, a
\* degree of two words and a degree with a path separator in it
InputLines ==
    StringsUpTo(MaxLineLen) \cup {<<"q">>, <<"Q">>, <<" ", "q", " ">>, <<"q", "u", "i", "t">>,
                                  <<"E", "x", "i", "t">>}
    \cup {<<"a", " ", "a">>, <<"a", "/", "a">>}

NoFields == <<<<>>, <<>>, <<>>, <<>>, <<>>>>

\* a comparison that does not lower-case the line
IsExitCaseSensitive(input) == input \in ExitTokens

\* user_input.lower() in ['quit', 'exit', 'q']
IsExit(input) == Lower(input) \in ExitTokens

\* a check that lets every parsed query through
AcceptedAlways(f) == TRUE

\* the query passes "if not degree: ... continue"
Accepted(f) == f[1] # <<>>

Fetcher(key, o) ==
    CASE key = "career_opportunities" -> search_google_news(o)
      [] key = "required_skills" -> search_google_news(o)
      [] key = "job_market_trends" -> search_indeed_insights(o)
      [] key = "salary_information" -> search_glassdoor_salaries(o)
      [] key = "learning_resources" -> search_coursera_skills(o)
      [] key = "community_discussions" -> search_reddit_career_advice(o)
      [] key = "linkedin_insights" -> search_linkedin_insights(o)
      [] key = "quora_insights" -> search_quora_answers(o)
      [] key = "skill_trends" -> analyze_skill_trends(o)

\* what the source behind a key may answer
SourceOutcomes(key) ==
    IF key = "skill_trends" THEN Outcomes(TextItems, MaxItems)
    ELSE IF key \in {"career_opportunities", "required_skills", "community_discussions"}
    THEN Outcomes(FeedItems, MaxItems)
    ELSE Outcomes(PlainItems, MaxItems)

\* generate_career_report as a whole: the nine fetches in order, then the summary
RECURSIVE FetchAll(_, _, _)
FetchAll(d, i, o) ==
    IF i > Len(FetchOrder) THEN d
    ELSE FetchAll(DictSet(d, FetchOrder[i], Fetcher(FetchOrder[i], o[FetchOrder[i]])), i + 1, o)

generate_career_report(d, f, o) ==
    LET fetched == FetchAll(d, 1, o)
    IN  DictSet(fetched, "summary", _generate_career_summary(fetched, f))

FullItem(key) ==
    [title |-> "t", link |-> "u", text |-> IF key = "skill_trends" THEN <<"python">> ELSE <<>>]

\* every source answers with MaxItems items
FullOutcomes ==
    [key \in Range(FetchOrder) |->
        [kind |-> "response", status |-> 200, shape |-> "ok",
         items |-> [i \in 1..MaxItems |-> FullItem(key)]]]

EarlierFields == <<<<"a", "a">>, <<"a">>, <<>>, <<>>, DefaultYear>>

\* the tool at the prompt: just constructed, or after an earlier query of the session
\* (for "aa,a") that every source answered
ToolsAtPrompt == {EmptyDict, generate_career_report(EmptyDict, EarlierFields, FullOutcomes)}

\* main's local report before the first generate_career_report of the session returns
NoReport == [returned |-> FALSE, contents |-> EmptyDict]

NoFn == /\ op = "none" /\ arg = <<>> /\ ret = <<>> /\ applied = FALSE

InitCLI ==
    /\ pc = "prompt"
    /\ idx = 1
    /\ user_input = <<>>
    /\ fields = NoFields
    /\ results \in ToolsAtPrompt
    /\ files = {}
    /\ calls = 0
    /\ lastFailed = "none"
    /\ report = IF results = EmptyDict THEN NoReport ELSE [returned |-> TRUE, contents |-> results]
    /\ NoFn

\* main's locals are dead when the loop is back at the prompt (each is assigned again
\* before it is read): the model clears them there, and lastFailed with them.
\* user_input.lower() in ['quit', 'exit', 'q']: break
Quit ==
    /\ pc = "prompt"
    /\ \E line \in InputLines :
          /\ IsExit(Strip(line))
          /\ user_input' = Strip(line)
    /\ pc' = "exited"
    /\ UNCHANGED <<idx, fields, results, files, calls, lastFailed, report, fnVars>>

\* input() raises EOFError at the end of the input, at the query prompt or at the save
\* prompt: except Exception reports it
EndOfInput ==
    /\ pc \in {"prompt", "asksave"}
    /\ pc' = "failed"
    /\ UNCHANGED <<idx, user_input, fields, results, files, calls, lastFailed, report, fnVars>>

\* Ctrl-C anywhere inside the try block: except KeyboardInterrupt says goodbye and breaks
Interrupt ==
    /\ pc \notin {"exited", "interrupted", "failed"}
    /\ pc' = "interrupted"
    /\ UNCHANGED <<idx, user_input, fields, results, files, calls, lastFailed, report, fnVars>>

\* if not user_input: continue
SkipEmpty ==
    /\ pc = "prompt"
    /\ \E line \in InputLines :
          /\ ~IsExit(Strip(line))
          /\ Strip(line) = <<>>
    /\ UNCHANGED vars

\* if not degree: print("Please enter at least a degree/qualification")
Reject ==
    /\ pc = "prompt"
    /\ \E line \in InputLines :
          /\ ~IsExit(Strip(line))
          /\ Strip(line) # <<>>
          /\ ~Accepted(parse_query(Strip(line)))
          /\ user_input' = Strip(line)
          /\ fields' = parse_query(Strip(line))
    /\ pc' = "rejected"
    /\ UNCHANGED <<idx, results, files, calls, lastFailed, report, fnVars>>

\* the query is accepted: generate_career_report starts
StartResearch ==
    /\ pc = "prompt"
    /\ calls < MaxQueries
    /\ \E line \in InputLines :
          /\ ~IsExit(Strip(line))
          /\ Strip(line) # <<>>
          /\ Accepted(parse_query(Strip(line)))
          /\ user_input' = Strip(line)
          /\ fields' = parse_query(Strip(line))
    /\ pc' = "fetch"
    /\ idx' = 1
    /\ calls' = calls + 1
    /\ lastFailed' = "none"
    /\ UNCHANGED <<results, files, report, fnVars>>

\* one fetcher call of generate_career_report and the assignment of its result
FetchSource ==
    /\ pc = "fetch"
    /\ \E o \in SourceOutcomes(FetchOrder[idx]) :
          /\ results' = DictSet(results, FetchOrder[idx], Fetcher(FetchOrder[idx], o))
          /\ lastFailed' = IF o.kind = "raise" THEN FetchOrder[idx] ELSE lastFailed
    /\ IF idx < Len(FetchOrder)
       THEN idx' = idx + 1 /\ pc' = pc
       ELSE idx' = idx /\ pc' = "summary"
    /\ UNCHANGED <<user_input, fields, files, calls, report, fnVars>>

\* self.results['summary'] = self._generate_career_summary(...); return self.results
Summarize ==
    /\ pc = "summary"
    /\ results' = DictSet(results, "summary", _generate_career_summary(results, fields))
    /\ report' = [returned |-> TRUE, contents |-> results']
    /\ pc' = "display"
    /\ UNCHANGED <<idx, user_input, fields, files, calls, lastFailed, fnVars>>

\* display_career_report only reads self.results
Display ==
    /\ pc = "display"
    /\ pc' = "asksave"
    /\ UNCHANGED <<idx, user_input, fields, results, files, calls, lastFailed, report, fnVars>>

\* f"career_report_{degree}_{timestamp}" and the extension: stem lists the parts that
\* the underscores join (a fixed word is a string of one symbol); "timestamp" stands for the time read once at line 449, which
\* both names of one save share
FileName(d, ext) ==
    [stem |-> <<<<"career_report">>, SpacesToUnderscores(d.map["summary"].degree),
               <<"timestamp">>>>,
     ext |-> ext]

\* a save that stops after the JSON dump
SaveJsonOnly(d, fs) == fs \cup {FileName(d, "json")}

\* save_career_report(): the JSON dump, then the HTML report
save_career_report(d, fs) == fs \cup {FileName(d, "json"), FileName(d, "html")}

\* open(f"{filename}.json", 'w') raises (FileNotFoundError) when the name has a path
\* separator in it, the degree being copied into the name as typed
OpenRaises(d) == "/" \in Range(FileName(d, "json").stem[2])

\* the answer is y or yes, and both files are written
Save ==
    /\ pc = "asksave"
    /\ ~OpenRaises(results)
    /\ files' = save_career_report(results, files)
    /\ pc' = "saved"
    /\ UNCHANGED <<idx, user_input, fields, results, calls, lastFailed, report, fnVars>>

\* the answer is y or yes, and the first open raises: except Exception reports it
SaveFails ==
    /\ pc = "asksave"
    /\ OpenRaises(results)
    /\ pc' = "failed"
    /\ UNCHANGED <<idx, user_input, fields, results, files, calls, lastFailed, report, fnVars>>

\* any other answer
DontSave ==
    /\ pc = "asksave"
    /\ pc' = "prompt"
    /\ user_input' = <<>>
    /\ fields' = NoFields
    /\ lastFailed' = "none"
    /\ UNCHANGED <<idx, results, files, calls, report, fnVars>>

\* a loop that a reported exception ends
LoopBackUnlessFailed ==
    /\ pc \in {"rejected", "saved", "failed"}
    /\ pc' = IF pc = "failed" THEN "exited" ELSE "prompt"
    /\ user_input' = <<>>
    /\ fields' = NoFields
    /\ lastFailed' = "none"
    /\ UNCHANGED <<idx, results, files, calls, report, fnVars>>

\* after the message of a rejected or a saved query, or the report of an exception, the
\* loop prompts again
LoopBack ==
    /\ pc \in {"rejected", "saved", "failed"}
    /\ pc' = "prompt"
    /\ user_input' = <<>>
    /\ fields' = NoFields
    /\ lastFailed' = "none"
    /\ UNCHANGED <<idx, results, files, calls, report, fnVars>>

Next ==
    \/ Quit
    \/ EndOfInput
    \/ Interrupt
    \/ SkipEmpty
    \/ Reject
    \/ StartResearch
    \/ FetchSource
    \/ Summarize
    \/ Display
    \/ Save
    \/ SaveFails
    \/ DontSave
    \/ LoopBack

Spec == InitCLI /\ [][Next]_vars

\* the steps of main() that take a line from the input: the query prompt's input() and the
\* save prompt's input() returning
ReadsLine == Quit \/ SkipEmpty \/ Reject \/ StartResearch \/ Save \/ SaveFails \/ DontSave

\* main() as the interpreter runs it: while a step of the loop is possible one is taken
SpecFair == InitCLI /\ [][Next]_vars /\ WF_vars(Next)

(***************************************************************************)
(* JobMarketAnalyzer: the hiring-trend fetchers and their classifiers      *)
(***************************************************************************)
IndeedCap == 10
IndeedSample == 5
LinkedinCap == 8
LinkedinSample == 3
TrendCap == 10
TrendSample == 5

assess_hiring_trend(job_count) ==
    IF job_count > 20 THEN "Strong hiring activity"
    ELSE IF job_count > 10 THEN "Moderate hiring activity"
    ELSE IF job_count > 5 THEN "Limited hiring activity"
    ELSE "Minimal hiring activity"

assess_networking_potential(opportunity_count) ==
    IF opportunity_count > 10 THEN "High networking potential"
    ELSE IF opportunity_count > 5 THEN "Moderate networking potential"
    ELSE "Limited networking opportunities"

PositiveIndicators == {"growth", "increasing", "demand", "expanding", "opportunity"}
NegativeIndicators == {"decline", "decreasing", "layoffs", "reduction", "challenging"}

\* ' '.join([article['snippet'].lower() for article in articles])
RECURSIVE AllContent(_)
AllContent(articles) ==
    IF articles = <<>> THEN <<>>
    ELSE [i \in 1..Len(Head(articles).snippet) |-> LowerWord(Head(articles).snippet[i])]
         \o AllContent(Tail(articles))

\* all_content.count(indicator) summed over the indicators
Occurrences(content, indicators) ==
    Cardinality({i \in 1..Len(content) : \E w \in indicators : SubWord(w, content[i])})

\* sum(1 for indicator in indicators if indicator in all_content)
IndicatorCount(content, indicators) ==
    Cardinality({w \in indicators : Contains(content, w)})

TrendResult(text, first, second) == [text |-> text, first |-> first, second |-> second]

\* the comparison with the two outcomes exchanged
TrendLabelSwapped(positive_count, negative_count) ==
    IF positive_count > negative_count
    THEN TrendResult("Negative trend indicators", negative_count, positive_count)
    ELSE IF negative_count > positive_count
    THEN TrendResult("Positive trend indicators", positive_count, negative_count)
    ELSE TrendResult("Mixed trend indicators", 0, 0)

\* the three return statements of analyze_trend_content: the text before the bracket
\* and the two numbers formatted into it
TrendLabel(positive_count, negative_count) ==
    IF positive_count > negative_count
    THEN TrendResult("Positive trend indicators", positive_count, negative_count)
    ELSE IF negative_count > positive_count
    THEN TrendResult("Negative trend indicators", negative_count, positive_count)
    ELSE TrendResult("Mixed trend indicators", 0, 0)

analyze_trend_content(articles) ==
    IF articles = <<>> THEN TrendResult("No trend data available", 0, 0)
    ELSE LET all_content == AllContent(articles)
         IN  TrendLabel(IndicatorCount(all_content, PositiveIndicators),
                        IndicatorCount(all_content, NegativeIndicators))

\* link_elem.get('href', '')
HrefOrEmpty(v) == IF v = "nohref" THEN "" ELSE v

\* the records the three fetchers collect from the first cap containers
JobRecords(o, cap) ==
    LET found(c) == c.title # "none" /\ c.link # "none"
        record(c) == [title |-> c.title, link |-> HrefOrEmpty(c.link), snippet |-> c.text]
    IN  MapSelect(Take(o.items, cap), found, record)

\* {'error': str(e)}
ErrorMapping == [error |-> "e"]

search_indeed_jobs(o) ==
    IF o.kind = "raise" THEN ErrorMapping
    ELSE LET jobs_data == JobRecords(o, IndeedCap)
         IN  [job_postings_found |-> Len(jobs_data),
              sample_jobs |-> Take(jobs_data, IndeedSample),
              trend_assessment |-> assess_hiring_trend(Len(jobs_data))]

search_linkedin_jobs(o) ==
    IF o.kind = "raise" THEN ErrorMapping
    ELSE LET linkedin_data == JobRecords(o, LinkedinCap)
         IN  [professional_opportunities |-> Len(linkedin_data),
              sample_opportunities |-> Take(linkedin_data, LinkedinSample),
              networking_potential |-> assess_networking_potential(Len(linkedin_data))]

search_job_market_trends(o) ==
    IF o.kind = "raise" THEN ErrorMapping
    ELSE LET trend_articles == JobRecords(o, TrendCap)
         IN  [trend_articles_found |-> Len(trend_articles),
              market_insights |-> Take(trend_articles, TrendSample),
              trend_analysis |-> analyze_trend_content(trend_articles)]

(***************************************************************************)
(* Function-level specifications: the argument is drawn in the initial     *)
(* state and one step applies the function to it.  The CLI stays at its    *)
(* initial prompt.                                                         *)
(***************************************************************************)
IdleCLI ==
    /\ pc = "prompt"
    /\ idx = 1
    /\ user_input = <<>>
    /\ fields = NoFields
    /\ results = EmptyDict
    /\ files = {}
    /\ calls = 0
    /\ lastFailed = "none"
    /\ report = NoReport

InitFn(name, args) ==
    /\ IdleCLI
    /\ op = name
    /\ arg \in args
    /\ ret = <<>>
    /\ applied = FALSE

\* "dell,layoff,2025" with one letter for each word
SampleQueries == {<<"d", ",", "l", ",", "2", "0", "2", "5">>}

\* parse_query on every short query string and on the sample queries
InitParse == InitFn("parse_query", StringsUpTo(MaxQueryLen) \cup SampleQueries)

ApplyParse ==
    /\ ~applied
    /\ ret' = parse_query(arg)
    /\ applied' = TRUE
    /\ UNCHANGED <<op, arg, cliVars>>

SpecParse == InitParse /\ [][ApplyParse]_vars

\* analyze_trend_content on the articles search_job_market_trends can collect
TrendWords == {"Growth", "demanding", "decline"}

TrendArticles ==
    [title : {"t"}, link : {"u"}, snippet : SeqsUpTo(TrendWords, MaxSnippetWords)]

InitTrend == InitFn("analyze_trend_content", SeqsUpTo(TrendArticles, MaxArticles))

ApplyTrend ==
    /\ ~applied
    /\ ret' = analyze_trend_content(arg)
    /\ applied' = TRUE
    /\ UNCHANGED <<op, arg, cliVars>>

SpecTrend == InitTrend /\ [][ApplyTrend]_vars

\* _generate_career_summary on the results the fetchers can have stored: every list
\* as long as its fetcher's cap allows
Records(n) == [i \in 1..n |-> [title |-> "t", link |-> "u", tag |-> "x"]]

StoredResults(co, jmt, si, rest, skill) ==
    [keys |-> FetchOrder,
     map |-> [k \in Range(FetchOrder) \cup {"summary"} |->
                 CASE k = "career_opportunities" -> Records(co)
                   [] k = "job_market_trends" -> Records(jmt)
                   [] k = "salary_information" -> Records(si)
                   [] k = "skill_trends" -> skill
                   [] k = "summary" -> NoSummary
                   [] OTHER -> Records(rest)]]

SummaryArgs ==
    {StoredResults(co, jmt, si, rest, skill) :
        co \in 0..NewsCap, jmt \in 0..ScrapeCap, si \in 0..ScrapeCap, rest \in 0..MaxItems,
        skill \in {EmptyMapping, analyze_skill_trends(FullOutcomes["skill_trends"])}}

InitSummary == InitFn("_generate_career_summary", SummaryArgs)

ApplySummary ==
    /\ ~applied
    /\ ret' = _generate_career_summary(arg, EarlierFields)
    /\ applied' = TRUE
    /\ UNCHANGED <<op, arg, cliVars>>

SpecSummary == InitSummary /\ [][ApplySummary]_vars

\* every fetcher on every outcome of its fetch
CareerListFetchers ==
    {"search_google_news", "search_indeed_insights", "search_linkedin_insights",
     "search_coursera_skills", "search_glassdoor_salaries", "search_reddit_career_advice",
     "search_quora_answers"}

JobFetchers == {"search_indeed_jobs", "search_linkedin_jobs", "search_job_market_trends"}

Fetchers == CareerListFetchers \cup {"analyze_skill_trends"} \cup JobFetchers

\* the fetchers that call requests.get / session.get (search_google_news hands the
\* URL to feedparser)
HttpGetFetchers == Fetchers \ {"search_google_news"}

ApplyFetcher(name, o) ==
    CASE name = "search_google_news" -> search_google_news(o)
      [] name = "search_indeed_insights" -> search_indeed_insights(o)
      [] name = "search_linkedin_insights" -> search_linkedin_insights(o)
      [] name = "search_coursera_skills" -> search_coursera_skills(o)
      [] name = "search_glassdoor_salaries" -> search_glassdoor_salaries(o)
      [] name = "search_reddit_career_advice" -> search_reddit_career_advice(o)
      [] name = "search_quora_answers" -> search_quora_answers(o)
      [] name = "analyze_skill_trends" -> analyze_skill_trends(o)
      [] name = "search_indeed_jobs" -> search_indeed_jobs(o)
      [] name = "search_linkedin_jobs" -> search_linkedin_jobs(o)
      [] name = "search_job_market_trends" -> search_job_market_trends(o)

InitFetch ==
    /\ IdleCLI
    /\ op \in Fetchers
    /\ arg \in Outcomes(Items, MaxItems)
    /\ ret = <<>>
    /\ applied = FALSE

ApplyFetch ==
    /\ ~applied
    /\ ret' = ApplyFetcher(op, arg)
    /\ applied' = TRUE
    /\ UNCHANGED <<op, arg, cliVars>>

SpecFetch == InitFetch /\ [][ApplyFetch]_vars

(***************************************************************************)
(* save_career_report: json.dump of self.results and what json.load reads  *)
(* back                                                                    *)
(*                                                                         *)
(* A JSON value is a record of its type t and its payload s; a JSON object *)
(* is the sequence of its name/value pairs in the order they are written.  *)
(***************************************************************************)
\* an encoder that writes None as the empty string
JsonAtomNoNull(v) == [t |-> "string", s |-> IF v = "None" THEN "" ELSE v]

\* a str is written as a JSON string, None as null
JsonAtom(v) == IF v = "None" THEN [t |-> "null", s |-> ""] ELSE [t |-> "string", s |-> v]

\* a JSON string is read as a str, null as None
PyAtom(j) == IF j.t = "null" THEN "None" ELSE j.s

Pair(name, value) == [name |-> name, value |-> value]

\* the value of the pair called name in a JSON object
Member(pairs, name) == pairs[CHOOSE i \in 1..Len(pairs) : pairs[i].name = name].value

HasMember(pairs, name) == \E i \in 1..Len(pairs) : pairs[i].name = name

\* one record of a source's list
JsonRecord(r) ==
    <<Pair("title", JsonAtom(r.title)), Pair("link", JsonAtom(r.link)), Pair("tag", JsonAtom(r.tag))>>

PyRecord(pairs) ==
    [title |-> PyAtom(Member(pairs, "title")), link |-> PyAtom(Member(pairs, "link")),
     tag |-> PyAtom(Member(pairs, "tag"))]

JsonStrings(xs) == [i \in 1..Len(xs) |-> JsonAtom(xs[i])]

PyStrings(js) == [i \in 1..Len(js) |-> PyAtom(js[i])]

\* the skill_trends mapping: {} has no pair
JsonSkills(m) ==
    IF ~m.has_keys THEN <<>>
    ELSE <<Pair("high_demand_skills", JsonStrings(m.high_demand_skills)),
           Pair("emerging_skills", JsonStrings(m.emerging_skills)),
           Pair("traditional_skills", JsonStrings(m.traditional_skills))>>

PySkills(pairs) ==
    IF pairs = <<>> THEN EmptyMapping
    ELSE [has_keys |-> TRUE,
          high_demand_skills |-> PyStrings(Member(pairs, "high_demand_skills")),
          emerging_skills |-> PyStrings(Member(pairs, "emerging_skills")),
          traditional_skills |-> PyStrings(Member(pairs, "traditional_skills"))]

JsonText(chars) == [t |-> "string", s |-> chars]

JsonNumber(n) == [t |-> "number", s |-> n]

JsonSummary(sm) ==
    <<Pair("degree", JsonText(sm.degree)),
      Pair("experience_level", JsonText(sm.experience_level)),
      Pair("skills_focus", JsonText(sm.skills_focus)),
      Pair("job_market", JsonText(sm.job_market)),
      Pair("target_year", JsonText(sm.target_year)),
      Pair("total_sources_found", JsonNumber(sm.total_sources_found)),
      Pair("market_outlook", JsonAtom(sm.market_outlook)),
      Pair("career_areas_covered", JsonStrings(sm.career_areas_covered)),
      Pair("key_findings", [i \in 1..Len(sm.key_findings) |-> JsonText(sm.key_findings[i])])>>

PySummary(pairs) ==
    [degree |-> Member(pairs, "degree").s,
     experience_level |-> Member(pairs, "experience_level").s,
     skills_focus |-> Member(pairs, "skills_focus").s,
     job_market |-> Member(pairs, "job_market").s,
     target_year |-> Member(pairs, "target_year").s,
     total_sources_found |-> Member(pairs, "total_sources_found").s,
     market_outlook |-> PyAtom(Member(pairs, "market_outlook")),
     career_areas_covered |-> PyStrings(Member(pairs, "career_areas_covered")),
     key_findings |-> LET fs == Member(pairs, "key_findings") IN [i \in 1..Len(fs) |-> fs[i].s]]

JsonEntry(key, v) ==
    IF key = "summary" THEN JsonSummary(v)
    ELSE IF key = "skill_trends" THEN JsonSkills(v)
    ELSE [i \in 1..Len(v) |-> JsonRecord(v[i])]

PyEntry(key, j) ==
    IF key = "summary" THEN PySummary(j)
    ELSE IF key = "skill_trends" THEN PySkills(j)
    ELSE [i \in 1..Len(j) |-> PyRecord(j[i])]

\* json.dump(self.results, f): the pairs of the dict in insertion order
json_dump(d) == [i \in 1..Len(d.keys) |-> Pair(d.keys[i], JsonEntry(d.keys[i], d.map[d.keys[i]]))]

\* json.load(f) of that text
json_load(pairs) ==
    [keys |-> [i \in 1..Len(pairs) |-> pairs[i].name],
     map |-> [k \in DOMAIN EmptyDict.map |->
                 IF HasMember(pairs, k) THEN PyEntry(k, Member(pairs, k)) ELSE EmptyDict.map[k]]]

\* what each source answers in the reports that are saved: an exception, a full page,
\* for the scrapers a container whose a element has no href, for skill_trends a page
\* without containers
SavedOutcomes(key) ==
    {Raise, FullOutcomes[key]}
    \cup (IF key = "skill_trends"
          THEN {[kind |-> "response", status |-> 200, shape |-> "ok", items |-> <<>>]}
          ELSE IF key \in {"job_market_trends", "salary_information", "learning_resources",
                           "linkedin_insights", "quora_insights"}
          THEN {[kind |-> "response", status |-> 200, shape |-> "ok",
                 items |-> <<[title |-> "t", link |-> "nohref", text |-> <<>>]>>]}
          ELSE {})

\* the reports generate_career_report leaves in a new tool for these answers
SavedReports ==
    {generate_career_report(EmptyDict, EarlierFields, o) :
        o \in {f \in [Range(FetchOrder) -> UNION {SavedOutcomes(k) : k \in Range(FetchOrder)}] :
                  \A k \in Range(FetchOrder) : f[k] \in SavedOutcomes(k)}}

InitSave == InitFn("save_career_report", SavedReports)

\* save_career_report(): the JSON text written, and the report the HTML is rendered from
ApplySave ==
    /\ ~applied
    /\ ret' = [json |-> json_dump(arg), html_from |-> arg]
    /\ applied' = TRUE
    /\ UNCHANGED <<op, arg, cliVars>>

SpecSave == InitSave /\ [][ApplySave]_vars

(***************************************************************************)
(* report_generator.create_hiring_trends_section over the mapping that     *)
(* JobMarketAnalyzer.get_hiring_trends returns.  The HTML is the sequence  *)
(* of its div tags: "div" opens one, "/div" closes one.                    *)
(***************************************************************************)
\* the pages the three hiring-trend sources answer with
JobItems ==
    {it \in Items : it.title = "t" /\ it.link # "nohref" /\ it.text \in {<<>>, <<"Growth", "decline">>}}

\* an exception, or a page of such containers
JobOutcomes ==
    {Raise} \cup {r \in Responses(JobItems, MaxItems) : r.status = 200 /\ r.shape = "ok"}

\* trends['indeed'], trends['linkedin'], trends['market_trends']
get_hiring_trends(o) ==
    [indeed |-> search_indeed_jobs(o.indeed),
     linkedin |-> search_linkedin_jobs(o.linkedin),
     market_trends |-> search_job_market_trends(o.market_trends)]

\* data and not data.get('error'): the mappings of the fetchers are never empty
Usable(data) == "error" \notin DOMAIN data

create_hiring_trends_section(hiring_trends) ==
    <<"div">>                                              \* <div class="section">
    \o (IF Usable(hiring_trends.indeed)
        THEN <<"div", "div", "/div">>                      \* metric-grid opened, one card
        ELSE <<>>)
    \o (IF Usable(hiring_trends.linkedin)
        THEN <<"div", "/div">>                             \* one card
        ELSE <<>>)
    \o (IF Usable(hiring_trends.market_trends)
        THEN <<"div", "/div", "/div">>                     \* one card, metric-grid closed
        ELSE <<>>)
    \o <<"/div">>

\* the three fetches of get_hiring_trends on every combination of pages and exceptions
InitSection ==
    InitFn("create_hiring_trends_section",
           [indeed : JobOutcomes, linkedin : JobOutcomes, market_trends : JobOutcomes])

ApplySection ==
    /\ ~applied
    /\ ret' = create_hiring_trends_section(get_hiring_trends(arg))
    /\ applied' = TRUE
    /\ UNCHANGED <<op, arg, cliVars>>

SpecSection == InitSection /\ [][ApplySection]_vars

(***************************************************************************)
(* JobMarketAnalyzer: the layoff data                                      *)
(*                                                                         *)
(* The page of layoffs.fyi is what the code reads of it: which of the two  *)
(* yearly patterns its text matches and the tr elements of its first table *)
(* (none when the page has no table).  A row is its number of td cells and *)
(* the text of its first cell.                                             *)
(***************************************************************************)
ImpactHigh == 20
ImpactModerate == 10
\* rows = table.find_all('tr')[1:11]
LayoffRowsEnd == 11
\* if len(cells) >= 3
LayoffMinCells == 3

\* "No recent layoff data available"
NoLayoffData ==
    <<"N", "o", " ", "r", "e", "c", "e", "n", "t", " ", "l", "a", "y", "o", "f", "f", " ",
      "d", "a", "t", "a", " ", "a", "v", "a", "i", "l", "a", "b", "l", "e">>

\* "High impact - Many relevant companies affected"
HighImpact ==
    <<"H", "i", "g", "h", " ", "i", "m", "p", "a", "c", "t", " ", "-", " ", "M", "a", "n",
      "y", " ", "r", "e", "l", "e", "v", "a", "n", "t", " ", "c", "o", "m", "p", "a", "n",
      "i", "e", "s", " ", "a", "f", "f", "e", "c", "t", "e", "d">>

\* "Moderate impact - Some relevant companies affected"
ModerateImpact ==
    <<"M", "o", "d", "e", "r", "a", "t", "e", " ", "i", "m", "p", "a", "c", "t", " ", "-",
      " ", "S", "o", "m", "e", " ", "r", "e", "l", "e", "v", "a", "n", "t", " ", "c", "o",
      "m", "p", "a", "n", "i", "e", "s", " ", "a", "f", "f", "e", "c", "t", "e", "d">>

\* "Low impact - Few relevant companies affected"
LowImpact ==
    <<"L", "o", "w", " ", "i", "m", "p", "a", "c", "t", " ", "-", " ", "F", "e", "w", " ",
      "r", "e", "l", "e", "v", "a", "n", "t", " ", "c", "o", "m", "p", "a", "n", "i", "e",
      "s", " ", "a", "f", "f", "e", "c", "t", "e", "d">>

\* "Minimal impact - No directly relevant companies in recent layoffs"
MinimalImpact ==
    <<"M", "i", "n", "i", "m", "a", "l", " ", "i", "m", "p", "a", "c", "t", " ", "-", " ",
      "N", "o", " ", "d", "i", "r", "e", "c", "t", "l", "y", " ", "r", "e", "l", "e", "v",
      "a", "n", "t", " ", "c", "o", "m", "p", "a", "n", "i", "e", "s", " ", "i", "n", " ",
      "r", "e", "c", "e", "n", "t", " ", "l", "a", "y", "o", "f", "f", "s">>

\* thresholds compared with >= instead of >
get_impact_assessment_inclusive(relevant_count, total_count) ==
    IF total_count = 0 THEN NoLayoffData
    ELSE IF relevant_count * 100 >= ImpactHigh * total_count THEN HighImpact
    ELSE IF relevant_count * 100 >= ImpactModerate * total_count THEN ModerateImpact
    ELSE IF relevant_count * 100 > 0 THEN LowImpact
    ELSE MinimalImpact

\* percentage = (relevant_count / total_count) * 100 is a double; for the counts the
\* model explores it compares with 20, 10 and 0 as the exact quotient does, which is
\* the comparison written here without a division
get_impact_assessment(relevant_count, total_count) ==
    IF total_count = 0 THEN NoLayoffData
    ELSE IF relevant_count * 100 > ImpactHigh * total_count THEN HighImpact
    ELSE IF relevant_count * 100 > ImpactModerate * total_count THEN ModerateImpact
    ELSE IF relevant_count * 100 > 0 THEN LowImpact
    ELSE MinimalImpact

assess_layoff_relevance(job_title, layoffs) ==
    LET job_keywords == Words(Lower(job_title))
        relevant(layoff) ==
            \E i \in 1..Len(job_keywords) : IsSubstring(job_keywords[i], Lower(layoff.company))
        relevant_layoffs == SelectSeq(layoffs, relevant)
    IN  [relevant_layoffs |-> relevant_layoffs,
         impact_assessment |-> get_impact_assessment(Len(relevant_layoffs), Len(layoffs))]

LayoffsSource == "https://layoffs.fyi/"

get_layoff_data(job_title, o) ==
    IF o.kind = "raise" THEN [error |-> "e", source |-> LayoffsSource]
    ELSE LET rows == SubSeq(o.rows, 2, Min(LayoffRowsEnd, Len(o.rows)))
             listed(row) == row.cells >= LayoffMinCells
             layoff(row) == [company |-> row.company, employees_laid_off |-> "n", date |-> "d"]
             recent_layoffs == MapSelect(rows, listed, layoff)
         IN  [statistics |-> o.stats,
              recent_layoffs |-> recent_layoffs,
              job_relevance |-> assess_layoff_relevance(job_title, recent_layoffs),
              source |-> LayoffsSource]

\* most tr elements after the header row in the table of a page
MaxRows == 11
\* largest total_count that get_impact_assessment is applied to on its own
MaxCount == 12

\* job titles: "DB dev", "dev" and the empty title
JobTitles == {<<"D", "B", " ", "d", "e", "v">>, <<"d", "e", "v">>, <<>>}

\* company names: "DBCo" and "Acme"
RelevantCompany == <<"D", "B", "C", "o">>

OtherCompany == <<"A", "c", "m", "e">>

Repeat(x, n) == [i \in 1..n |-> x]

HeaderRow == [cells |-> 0, company |-> <<>>]

\* the tables: a header row, then rows of companies the title is relevant to, rows of
\* other companies and rows with too few cells, the relevant ones first or last
LayoffTables ==
    {<<>>}
    \cup {<<HeaderRow>>
          \o (IF c.first THEN Repeat([cells |-> 3, company |-> RelevantCompany], c.k) ELSE <<>>)
          \o Repeat([cells |-> 4, company |-> OtherCompany], c.m)
          \o Repeat([cells |-> 2, company |-> RelevantCompany], c.s)
          \o (IF c.first THEN <<>> ELSE Repeat([cells |-> 3, company |-> RelevantCompany], c.k)) :
             c \in {d \in [first : BOOLEAN, k : 0..MaxRows, m : 0..MaxRows, s : 0..1] :
                       d.k + d.m + d.s <= MaxRows}}

LayoffPages == [kind : {"response"}, stats : {{}, {"2025", "2024"}}, rows : LayoffTables]

LayoffOutcomes ==
    {[kind |-> "raise", stats |-> {}, rows |-> <<>>]} \cup LayoffPages

ImpactArgs ==
    {a \in [relevant_count : 0..MaxCount, total_count : 0..MaxCount] :
        a.relevant_count <= a.total_count}

LayoffArgs == [job_title : JobTitles, o : LayoffOutcomes]

\* get_impact_assessment on every pair of counts and get_layoff_data on every title
\* and page
InitLayoff ==
    /\ IdleCLI
    /\ \/ op = "get_impact_assessment" /\ arg \in ImpactArgs
       \/ op = "get_layoff_data" /\ arg \in LayoffArgs
    /\ ret = <<>>
    /\ applied = FALSE

ApplyLayoff ==
    /\ ~applied
    /\ ret' = IF op = "get_impact_assessment"
              THEN get_impact_assessment(arg.relevant_count, arg.total_count)
              ELSE get_layoff_data(arg.job_title, arg.o)
    /\ applied' = TRUE
    /\ UNCHANGED <<op, arg, cliVars>>

SpecLayoff == InitLayoff /\ [][ApplyLayoff]_vars

(***************************************************************************)
(* JobMarketAnalyzer: the skill requirements                               *)
(*                                                                         *)
(* The vocabularies are the lists of the code, each term written as the    *)
(* sequence of its characters.                                             *)
(***************************************************************************)
\* python, java, javascript, sql, html, css, react, angular, vue, node.js, django, flask,
\* spring, mongodb, postgresql, mysql, aws, azure, gcp, docker, kubernetes, git, jenkins,
\* terraform, machine learning, data science, artificial intelligence, deep learning,
\* tableau, power bi, excel, r, scala, spark, hadoop
tech_skills ==
    <<<<"p", "y", "t", "h", "o", "n">>, <<"j", "a", "v", "a">>,
      <<"j", "a", "v", "a", "s", "c", "r", "i", "p", "t">>, <<"s", "q", "l">>,
      <<"h", "t", "m", "l">>, <<"c", "s", "s">>, <<"r", "e", "a", "c", "t">>,
      <<"a", "n", "g", "u", "l", "a", "r">>, <<"v", "u", "e">>,
      <<"n", "o", "d", "e", ".", "j", "s">>, <<"d", "j", "a", "n", "g", "o">>,
      <<"f", "l", "a", "s", "k">>, <<"s", "p", "r", "i", "n", "g">>,
      <<"m", "o", "n", "g", "o", "d", "b">>,
      <<"p", "o", "s", "t", "g", "r", "e", "s", "q", "l">>, <<"m", "y", "s", "q", "l">>,
      <<"a", "w", "s">>, <<"a", "z", "u", "r", "e">>, <<"g", "c", "p">>,
      <<"d", "o", "c", "k", "e", "r">>, <<"k", "u", "b", "e", "r", "n", "e", "t", "e", "s">>,
      <<"g", "i", "t">>, <<"j", "e", "n", "k", "i", "n", "s">>,
      <<"t", "e", "r", "r", "a", "f", "o", "r", "m">>,
      <<"m", "a", "c", "h", "i", "n", "e", " ", "l", "e", "a", "r", "n", "i", "n", "g">>,
      <<"d", "a", "t", "a", " ", "s", "c", "i", "e", "n", "c", "e">>,
      <<"a", "r", "t", "i", "f", "i", "c", "i", "a", "l", " ", "i", "n", "t", "e", "l", "l", "i", "g", "e", "n", "c", "e">>,
      <<"d", "e", "e", "p", " ", "l", "e", "a", "r", "n", "i", "n", "g">>,
      <<"t", "a", "b", "l", "e", "a", "u">>, <<"p", "o", "w", "e", "r", " ", "b", "i">>,
      <<"e", "x", "c", "e", "l">>, <<"r">>, <<"s", "c", "a", "l", "a">>,
      <<"s", "p", "a", "r", "k">>, <<"h", "a", "d", "o", "o", "p">>>>

\* communication, leadership, teamwork, problem solving, analytical, project management,
\* agile, scrum, critical thinking, creativity
soft_skills ==
    <<<<"c", "o", "m", "m", "u", "n", "i", "c", "a", "t", "i", "o", "n">>,
      <<"l", "e", "a", "d", "e", "r", "s", "h", "i", "p">>,
      <<"t", "e", "a", "m", "w", "o", "r", "k">>,
      <<"p", "r", "o", "b", "l", "e", "m", " ", "s", "o", "l", "v", "i", "n", "g">>,
      <<"a", "n", "a", "l", "y", "t", "i", "c", "a", "l">>,
      <<"p", "r", "o", "j", "e", "c", "t", " ", "m", "a", "n", "a", "g", "e", "m", "e", "n", "t">>,
      <<"a", "g", "i", "l", "e">>, <<"s", "c", "r", "u", "m">>,
      <<"c", "r", "i", "t", "i", "c", "a", "l", " ", "t", "h", "i", "n", "k", "i", "n", "g">>,
      <<"c", "r", "e", "a", "t", "i", "v", "i", "t", "y">>>>

\* the four lists that categorize_skills tests a technical skill against
ProgrammingSkills ==
    <<<<"p", "y", "t", "h", "o", "n">>, <<"j", "a", "v", "a">>,
      <<"j", "a", "v", "a", "s", "c", "r", "i", "p", "t">>, <<"h", "t", "m", "l">>,
      <<"c", "s", "s">>, <<"r", "e", "a", "c", "t">>, <<"a", "n", "g", "u", "l", "a", "r">>,
      <<"v", "u", "e">>, <<"n", "o", "d", "e", ".", "j", "s">>>>

\* sql, mongodb, postgresql, mysql
DatabaseSkills ==
    <<<<"s", "q", "l">>, <<"m", "o", "n", "g", "o", "d", "b">>,
      <<"p", "o", "s", "t", "g", "r", "e", "s", "q", "l">>, <<"m", "y", "s", "q", "l">>>>

\* aws, azure, gcp, docker, kubernetes
CloudSkills ==
    <<<<"a", "w", "s">>, <<"a", "z", "u", "r", "e">>, <<"g", "c", "p">>,
      <<"d", "o", "c", "k", "e", "r">>, <<"k", "u", "b", "e", "r", "n", "e", "t", "e", "s">>>>

\* tableau, power bi, excel, r, machine learning, data science
AnalyticsSkills ==
    <<<<"t", "a", "b", "l", "e", "a", "u">>, <<"p", "o", "w", "e", "r", " ", "b", "i">>,
      <<"e", "x", "c", "e", "l">>, <<"r">>,
      <<"m", "a", "c", "h", "i", "n", "e", " ", "l", "e", "a", "r", "n", "i", "n", "g">>,
      <<"d", "a", "t", "a", " ", "s", "c", "i", "e", "n", "c", "e">>>>

\* [item['content'].lower() for item in content_list]
LoweredContents(content_list) == [i \in 1..Len(content_list) |-> Lower(content_list[i].content)]

\* a membership test on the content as it was scraped, not lower-cased
extract_skills_case_sensitive(content_list) ==
    LET all_content == JoinWithBlank([i \in 1..Len(content_list) |-> content_list[i].content])
        found(skill) == IsSubstring(skill, all_content)
        found_tech_skills == SelectSeq(tech_skills, found)
        found_soft_skills == SelectSeq(soft_skills, found)
    IN  [technical_skills |-> found_tech_skills,
         soft_skills |-> found_soft_skills,
         total_skills_identified |-> Len(found_tech_skills) + Len(found_soft_skills)]

extract_skills_from_content(content_list) ==
    LET all_content == JoinWithBlank(LoweredContents(content_list))
        found(skill) == IsSubstring(skill, all_content)
        found_tech_skills == SelectSeq(tech_skills, found)
        found_soft_skills == SelectSeq(soft_skills, found)
    IN  [technical_skills |-> found_tech_skills,
         soft_skills |-> found_soft_skills,
         total_skills_identified |-> Len(found_tech_skills) + Len(found_soft_skills)]

\* the loop appends a skill to the list of the first branch whose list holds it and to
\* no list when no branch does
categorize_skills(skills_data) ==
    LET tech == skills_data.technical_skills
        programming(skill) == skill \in Range(ProgrammingSkills)
        databases(skill) == ~programming(skill) /\ skill \in Range(DatabaseSkills)
        cloud(skill) ==
            ~programming(skill) /\ ~databases(skill) /\ skill \in Range(CloudSkills)
        analytics(skill) ==
            /\ ~programming(skill) /\ ~databases(skill) /\ ~cloud(skill)
            /\ skill \in Range(AnalyticsSkills)
    IN  [programming |-> SelectSeq(tech, programming),
         databases |-> SelectSeq(tech, databases),
         cloud |-> SelectSeq(tech, cloud),
         analytics |-> SelectSeq(tech, analytics),
         soft_skills |-> skills_data.soft_skills]

\* most div.g containers of a skills page
MaxContents == 2

\* descriptions of the containers: "", "JavaScript", "Django", "Machine", "learning", "MySQL",
\* "Teamwork", "git"
ContentTexts ==
    {<<>>,
     <<"J", "a", "v", "a", "S", "c", "r", "i", "p", "t">>,
     <<"D", "j", "a", "n", "g", "o">>,
     <<"M", "a", "c", "h", "i", "n", "e">>,
     <<"l", "e", "a", "r", "n", "i", "n", "g">>,
     <<"M", "y", "S", "Q", "L">>,
     <<"T", "e", "a", "m", "w", "o", "r", "k">>,
     <<"g", "i", "t">>}

\* find() of an element that the container does not have
NoElement == <<"None">>

\* a container of the page: whether it has an h3 title, and the text of its
\* description element (NoElement without one)
SkillItems == [title : {"none", "t"}, desc : {NoElement} \cup ContentTexts]

SkillOutcomes ==
    {[kind |-> "raise", items |-> <<>>]}
    \cup [kind : {"response"}, items : SeqsUpTo(SkillItems, MaxContents)]

\* the skills_content that search_skills_requirements collects
ContentLists == SeqsUpTo([title : {"t"}, content : ContentTexts], MaxContents)

SkillsCap == 10

search_skills_requirements(o) ==
    IF o.kind = "raise" THEN ErrorMapping
    ELSE LET found(c) == c.title # "none" /\ c.desc # "none"
             content(c) == [title |-> c.title, content |-> c.desc]
             skills_content == MapSelect(Take(o.items, SkillsCap), found, content)
             extracted_skills == extract_skills_from_content(skills_content)
         IN  [skills_sources |-> Len(skills_content),
              extracted_skills |-> extracted_skills,
              skill_categories |-> categorize_skills(extracted_skills)]

\* extract_skills_from_content on every content list and search_skills_requirements on
\* every page
InitSkills ==
    /\ IdleCLI
    /\ \/ op = "extract_skills_from_content" /\ arg \in ContentLists
       \/ op = "search_skills_requirements" /\ arg \in SkillOutcomes
    /\ ret = <<>>
    /\ applied = FALSE

ApplySkills ==
    /\ ~applied
    /\ ret' = IF op = "extract_skills_from_content"
              THEN extract_skills_from_content(arg)
              ELSE search_skills_requirements(arg)
    /\ applied' = TRUE
    /\ UNCHANGED <<op, arg, cliVars>>

SpecSkills == InitSkills /\ [][ApplySkills]_vars

(***************************************************************************)
(* JobMarketAnalyzer: the trending skills                                  *)
(*                                                                         *)
(* trend_analysis, a dict from keyword to count, is the sequence of its    *)
(* items (keyword, count) in insertion order.                              *)
(***************************************************************************)
\* ai, machine learning, cloud, automation, blockchain, cybersecurity
emerging_keywords ==
    <<<<"a", "i">>,
      <<"m", "a", "c", "h", "i", "n", "e", " ", "l", "e", "a", "r", "n", "i", "n", "g">>,
      <<"c", "l", "o", "u", "d">>,
      <<"a", "u", "t", "o", "m", "a", "t", "i", "o", "n">>,
      <<"b", "l", "o", "c", "k", "c", "h", "a", "i", "n">>,
      <<"c", "y", "b", "e", "r", "s", "e", "c", "u", "r", "i", "t", "y">>>>

\* str.count(w): the occurrences of w, found from left to right without overlap
RECURSIVE CountFrom(_, _, _)
CountFrom(s, w, i) ==
    IF i + Len(w) - 1 > Len(s) THEN 0
    ELSE IF SubSeq(s, i, i + Len(w) - 1) = w THEN 1 + CountFrom(s, w, i + Len(w))
    ELSE CountFrom(s, w, i + 1)

Count(s, w) == CountFrom(s, w, 1)

\* sorted(items, key=lambda x: x[1], reverse=True): a stable sort, items with equal
\* counts stay in their order
RECURSIVE SortedByCountDesc(_)
SortedByCountDesc(items) ==
    IF items = <<>> THEN <<>>
    ELSE LET rest == SortedByCountDesc(SubSeq(items, 1, Len(items) - 1))
             x == items[Len(items)]
             before == SelectSeq(rest, LAMBDA y : y[2] >= x[2])
             after == SelectSeq(rest, LAMBDA y : y[2] < x[2])
         IN  before \o <<x>> \o after

\* a sort in ascending order, then reversed: items with equal counts change places
RECURSIVE SortedAscendingReversed(_)
SortedAscendingReversed(items) ==
    IF items = <<>> THEN <<>>
    ELSE LET rest == SortedAscendingReversed(Tail(items))
             x == Head(items)
             before == SelectSeq(rest, LAMBDA y : y[2] >= x[2])
             after == SelectSeq(rest, LAMBDA y : y[2] < x[2])
         IN  before \o <<x>> \o after

RECURSIVE MaxByCount(_, _)
\* max(items, key=lambda x: x[1]) after best: a later item replaces best only with a
\* larger count
MaxByCount(items, best) ==
    IF items = <<>> THEN best
    ELSE MaxByCount(Tail(items), IF Head(items)[2] > best[2] THEN Head(items) ELSE best)

TrendSummary(text, keyword, count) == [text |-> text, keyword |-> keyword, count |-> count]

\* the text before the keyword, and the keyword and count formatted into it
generate_trend_summary(trends) ==
    IF trends = <<>> THEN TrendSummary("No clear trending skills identified", <<>>, 0)
    ELSE LET top_trend == MaxByCount(Tail(trends), Head(trends))
         IN  TrendSummary("Most mentioned emerging skill", top_trend[1], top_trend[2])

TrendingCap == 8

\* the trend_analysis dict that the loop over emerging_keywords fills
TrendAnalysis(all_content) ==
    LET counted == [i \in 1..Len(emerging_keywords) |->
                       <<emerging_keywords[i], Count(all_content, emerging_keywords[i])>>]
    IN  SelectSeq(counted, LAMBDA item : item[2] > 0)

\* JobMarketAnalyzer.analyze_skill_trends (CareerResearchTool has a method of the same
\* name, modelled above)
job_analyze_skill_trends_reversed(o) ==
    IF o.kind = "raise" THEN ErrorMapping
    ELSE LET containers == Take(o.items, TrendingCap)
             trend_content == MapSelect(containers, LAMBDA c : c.desc # NoElement, LAMBDA c : c.desc)
             all_content == Lower(JoinWithBlank(trend_content))
             trend_analysis == TrendAnalysis(all_content)
         IN  [trending_skills |-> SortedAscendingReversed(trend_analysis),
              trend_summary |-> generate_trend_summary(trend_analysis)]

job_analyze_skill_trends(o) ==
    IF o.kind = "raise" THEN ErrorMapping
    ELSE LET containers == Take(o.items, TrendingCap)
             trend_content == MapSelect(containers, LAMBDA c : c.desc # NoElement, LAMBDA c : c.desc)
             all_content == Lower(JoinWithBlank(trend_content))
             trend_analysis == TrendAnalysis(all_content)
         IN  [trending_skills |-> SortedByCountDesc(trend_analysis),
              trend_summary |-> generate_trend_summary(trend_analysis)]

\* descriptions of the containers: "", "AI", "cloud", "cloud AI", "rain", "AI AI", "blockchain"
TrendTexts ==
    {<<>>,
     <<"A", "I">>,
     <<"c", "l", "o", "u", "d">>,
     <<"c", "l", "o", "u", "d", " ", "A", "I">>,
     <<"r", "a", "i", "n">>,
     <<"A", "I", " ", "A", "I">>,
     <<"b", "l", "o", "c", "k", "c", "h", "a", "i", "n">>}

TrendingItems == [desc : {NoElement} \cup TrendTexts]

TrendingOutcomes ==
    {[kind |-> "raise", items |-> <<>>]}
    \cup [kind : {"response"}, items : SeqsUpTo(TrendingItems, MaxContents)]

InitTrending == InitFn("analyze_skill_trends", TrendingOutcomes)

ApplyTrending ==
    /\ ~applied
    /\ ret' = job_analyze_skill_trends(arg)
    /\ applied' = TRUE
    /\ UNCHANGED <<op, arg, cliVars>>

SpecTrending == InitTrending /\ [][ApplyTrending]_vars

(***************************************************************************)
(* JobMarketAnalyzer: salaries, skills demand and interview questions      *)
(***************************************************************************)
SalaryCap == 8
SalarySample == 5

\* descriptions of the containers of a salary page, with the matches that
\* re.findall(r'\$[\d,]+(?:k|,000)?', content) finds in each:
\* "pay $50k" -> ['$50k'];  "$90,000 or $," -> ['$90,000', '$,'];  "no figures" -> []
PayText == <<"p", "a", "y", " ", "$", "5", "0", "k">>

RangeText == <<"$", "9", "0", ",", "0", "0", "0", " ", "o", "r", " ", "$", ",">>

NoFiguresText == <<"n", "o", " ", "f", "i", "g", "u", "r", "e", "s">>

SalaryMatches(content) ==
    CASE content = PayText -> <<<<"$", "5", "0", "k">>>>
      [] content = RangeText -> <<<<"$", "9", "0", ",", "0", "0", "0">>, <<"$", ",">>>>
      [] OTHER -> <<>>

Digits == <<"0", "1", "2", "3", "4", "5", "6", "7", "8", "9">>

\* salary.replace('$', '').replace(',', '').replace('k', '000')
RECURSIVE CleanSalary(_)
CleanSalary(salary) ==
    IF salary = <<>> THEN <<>>
    ELSE IF Head(salary) \in {"$", ","} THEN CleanSalary(Tail(salary))
    ELSE IF Head(salary) = "k" THEN <<"0", "0", "0">> \o CleanSalary(Tail(salary))
    ELSE <<Head(salary)>> \o CleanSalary(Tail(salary))

\* whether int(s) returns: s is one or more digits
IsNumber(s) == s # <<>> /\ \A i \in 1..Len(s) : s[i] \in Range(Digits)

RECURSIVE ToInt(_)
ToInt(s) ==
    IF s = <<>> THEN 0
    ELSE 10 * ToInt(SubSeq(s, 1, Len(s) - 1))
         + (CHOOSE d \in 0..9 : Digits[d + 1] = s[Len(s)])

RECURSIVE Flatten(_)
Flatten(lists) == IF lists = <<>> THEN <<>> ELSE Head(lists) \o Flatten(Tail(lists))

RECURSIVE SumOf(_)
SumOf(xs) == IF xs = <<>> THEN 0 ELSE Head(xs) + SumOf(Tail(xs))

\* min and max of a non-empty list
MinOf(xs) == CHOOSE x \in Range(xs) : \A y \in Range(xs) : x <= y

MaxOf(xs) == CHOOSE x \in Range(xs) : \A y \in Range(xs) : x >= y

\* a mention that int() rejects is skipped by the bare except
analyze_salary_ranges(salary_info) ==
    LET mentioned == Flatten([i \in 1..Len(salary_info) |-> salary_info[i].salaries_mentioned])
        cleaned == [i \in 1..Len(mentioned) |-> CleanSalary(mentioned[i])]
        numbers == SelectSeq(cleaned, IsNumber)
        all_salaries == [i \in 1..Len(numbers) |-> ToInt(numbers[i])]
    IN  IF all_salaries # <<>>
        THEN [min_salary |-> MinOf(all_salaries),
              max_salary |-> MaxOf(all_salaries),
              avg_salary |-> SumOf(all_salaries) \div Len(all_salaries),
              salary_count |-> Len(all_salaries)]
        ELSE [analysis |-> "No salary data found"]

\* content[:200] + '...' on the descriptions of the model, all shorter than 200
Shortened(content) == content \o <<".", ".", ".">>

get_salary_data(o) ==
    IF o.kind = "raise" THEN ErrorMapping
    ELSE LET found(c) ==
                 c.title # "none" /\ c.desc # NoElement /\ SalaryMatches(c.desc) # <<>>
             info(c) == [source |-> c.title, salaries_mentioned |-> SalaryMatches(c.desc),
                         content |-> Shortened(c.desc)]
             salary_info == MapSelect(Take(o.items, SalaryCap), found, info)
         IN  [salary_sources |-> Len(salary_info),
              salary_data |-> Take(salary_info, SalarySample),
              salary_analysis |-> analyze_salary_ranges(salary_info)]

\* skills_data['requirements'], ['salary_insights'], ['trends']
analyze_skills_demand(o) ==
    [requirements |-> search_skills_requirements(o.requirements),
     salary_insights |-> get_salary_data(o.salary_insights),
     trends |-> job_analyze_skill_trends(o.trends)]

InterviewCap == 10
InterviewSample == 5

\* interview questions, commonly asked, prepare for, expect to be asked
question_indicators ==
    <<<<"i", "n", "t", "e", "r", "v", "i", "e", "w", " ", "q", "u", "e", "s", "t", "i", "o", "n", "s">>,
      <<"c", "o", "m", "m", "o", "n", "l", "y", " ", "a", "s", "k", "e", "d">>,
      <<"p", "r", "e", "p", "a", "r", "e", " ", "f", "o", "r">>,
      <<"e", "x", "p", "e", "c", "t", " ", "t", "o", " ", "b", "e", " ", "a", "s", "k", "e", "d">>>>

\* the ten standard questions and the six tips are fixed texts; the second tip holds
\* the job title
common_questions ==
    <<"Tell me about yourself", "Why do you want this position?",
      "What are your strengths and weaknesses?",
      "Describe a challenging project you worked on",
      "Where do you see yourself in 5 years?", "Why are you leaving your current job?",
      "What interests you about our company?",
      "Describe your experience with [relevant technology]",
      "How do you handle tight deadlines?",
      "Give an example of when you solved a complex problem">>

\* source_relevance is the score formatted into "<score>/4 question indicators found"
extract_interview_questions(sources) ==
    LET all_content == JoinWithBlank([i \in 1..Len(sources) |-> Lower(sources[i].preview)])
        relevance_score ==
            Cardinality({i \in 1..Len(question_indicators) :
                            IsSubstring(question_indicators[i], all_content)})
    IN  [standard_questions |-> common_questions,
         source_relevance |-> relevance_score,
         recommendation |->
             "Review role-specific technical questions based on job requirements"]

generate_interview_tips(job_title) ==
    <<[text |-> "Research the company's recent projects and initiatives", title |-> <<>>],
      [text |-> "Prepare specific examples demonstrating {job_title} skills", title |-> job_title],
      [text |-> "Practice explaining technical concepts in simple terms", title |-> <<>>],
      [text |-> "Prepare questions about team structure and growth opportunities", title |-> <<>>],
      [text |-> "Review your portfolio/projects and be ready to discuss them", title |-> <<>>],
      [text |-> "Stay updated on industry trends and challenges", title |-> <<>>]>>

get_interview_questions(job_title, o) ==
    IF o.kind = "raise" THEN ErrorMapping
    ELSE LET found(c) == c.title # "none" /\ c.link # "none"
             source(c) == [title |-> c.title, link |-> HrefOrEmpty(c.link),
                           preview |-> IF c.desc = NoElement THEN <<>> ELSE c.desc]
             interview_sources == MapSelect(Take(o.items, InterviewCap), found, source)
         IN  [interview_sources |-> Len(interview_sources),
              source_links |-> Take(interview_sources, InterviewSample),
              common_questions |-> extract_interview_questions(interview_sources),
              preparation_tips |-> generate_interview_tips(job_title)]

(***************************************************************************)
(* JobMarketAnalyzer: the market analysis and analyze_job_role              *)
(*                                                                         *)
(* A mapping of the analyzer is a record of its keys.  The empty dict {}   *)
(* is a record whose only field is a mark that no lookup of the code asks  *)
(* for.  analysis_date, a timestamp, is left out: nothing reads it.        *)
(***************************************************************************)
EmptyResults == [empty_dict |-> TRUE]

\* d.get(key, default)
Get(d, key, default) == IF key \in DOMAIN d THEN d[key] ELSE default

JobCountStrong == 15
JobCountLimited == 5

\* "Positive - Low layoff impact"
LowLayoffFactor ==
    <<"P", "o", "s", "i", "t", "i", "v", "e", " ", "-", " ", "L", "o", "w", " ", "l", "a",
      "y", "o", "f", "f", " ", "i", "m", "p", "a", "c", "t">>

\* "Caution - High layoff impact"
HighLayoffFactor ==
    <<"C", "a", "u", "t", "i", "o", "n", " ", "-", " ", "H", "i", "g", "h", " ", "l", "a",
      "y", "o", "f", "f", " ", "i", "m", "p", "a", "c", "t">>

\* "Positive - Strong job posting activity"
StrongPostingFactor ==
    <<"P", "o", "s", "i", "t", "i", "v", "e", " ", "-", " ", "S", "t", "r", "o", "n", "g",
      " ", "j", "o", "b", " ", "p", "o", "s", "t", "i", "n", "g", " ", "a", "c", "t", "i",
      "v", "i", "t", "y">>

\* "Caution - Limited job postings"
LimitedPostingFactor ==
    <<"C", "a", "u", "t", "i", "o", "n", " ", "-", " ", "L", "i", "m", "i", "t", "e", "d",
      " ", "j", "o", "b", " ", "p", "o", "s", "t", "i", "n", "g", "s">>

get_market_recommendation(sentiment) ==
    IF sentiment = "Positive" THEN "Good time to pursue opportunities in this field"
    ELSE IF sentiment = "Cautious" THEN "Consider timing and focus on skill development"
    ELSE "Monitor market conditions and prepare for opportunities"

\* results is self.results at the time of the call (hasattr(self, 'results') holds
\* from __init__ on)
assess_market_outlook(self_results) ==
    LET layoff_data == Get(self_results, "layoff_data", EmptyResults)
        layoff_relevance == Get(layoff_data, "job_relevance", EmptyResults)
        impact == Lower(Get(layoff_relevance, "impact_assessment", <<>>))
        hiring_data == Get(self_results, "hiring_trends", EmptyResults)
        indeed_data == Get(hiring_data, "indeed", EmptyResults)
        job_count == Get(indeed_data, "job_postings_found", 0)
        outlook_factors ==
            (IF IsSubstring(<<"m", "i", "n", "i", "m", "a", "l">>, impact)
                \/ IsSubstring(<<"l", "o", "w">>, impact)
             THEN <<LowLayoffFactor>>
             ELSE IF IsSubstring(<<"h", "i", "g", "h">>, impact) THEN <<HighLayoffFactor>>
             ELSE <<>>)
            \o (IF job_count > JobCountStrong THEN <<StrongPostingFactor>>
                ELSE IF job_count < JobCountLimited THEN <<LimitedPostingFactor>>
                ELSE <<>>)
        positive(f) == IsSubstring(<<"P", "o", "s", "i", "t", "i", "v", "e">>, f)
        caution(f) == IsSubstring(<<"C", "a", "u", "t", "i", "o", "n">>, f)
        positives == Len(SelectSeq(outlook_factors, positive))
        cautions == Len(SelectSeq(outlook_factors, caution))
        overall_sentiment ==
            IF positives > cautions THEN "Positive"
            ELSE IF cautions > positives THEN "Cautious"
            ELSE "Neutral"
    IN  [overall_sentiment |-> overall_sentiment,
         key_factors |-> outlook_factors,
         recommendation |-> get_market_recommendation(overall_sentiment)]

analyze_competition_level ==
    [assessment |-> "Moderate",
     factors |-> <<"Skills demand vs supply", "Number of qualified candidates",
                   "Barrier to entry">>,
     advice |-> "Focus on developing unique skill combinations"]

assess_growth_potential ==
    [short_term |-> "Stable demand expected",
     long_term |-> "Growth dependent on industry evolution",
     key_growth_drivers |-> <<"Technology advancement", "Digital transformation",
                              "Market expansion">>]

perform_market_analysis(self_results) ==
    [market_outlook |-> assess_market_outlook(self_results),
     competition |-> analyze_competition_level,
     growth_potential |-> assess_growth_potential]

\* the five steps run while self.results still is what the call found at its start;
\* the mapping built from them is assigned to self.results and returned
analyze_job_role(self_results, job_title, o) ==
    LET layoff_data == get_layoff_data(job_title, o.layoffs)
        hiring_trends == get_hiring_trends(o.hiring)
        skills_data == analyze_skills_demand(o.skills)
        interview_data == get_interview_questions(job_title, o.interview)
        market_analysis == perform_market_analysis(self_results)
    IN  [job_title |-> job_title,
         layoff_data |-> layoff_data,
         hiring_trends |-> hiring_trends,
         skills_analysis |-> skills_data,
         interview_questions |-> interview_data,
         market_analysis |-> market_analysis]

\* most div.g containers of a page of job postings
MaxContainers == 22

\* a page of n containers, each with a title and a link
JobPage(n) ==
    [kind |-> "response", status |-> 200, shape |-> "ok",
     items |-> Repeat([title |-> "t", link |-> "u", text |-> <<>>], n)]

\* the layoff pages of an analysis: no table, and tables whose rows make each impact
LayoffTable(relevant, other) ==
    <<HeaderRow>> \o Repeat([cells |-> 3, company |-> RelevantCompany], relevant)
                  \o Repeat([cells |-> 3, company |-> OtherCompany], other)

AnalyzedLayoffs ==
    {[kind |-> "raise", stats |-> {}, rows |-> <<>>]}
    \cup {[kind |-> "response", stats |-> {"2025", "2024"}, rows |-> rows] :
             rows \in {<<>>, LayoffTable(3, 0), LayoffTable(2, 8), LayoffTable(1, 9),
                       LayoffTable(0, 10)}}

AnalyzedHiring ==
    [indeed : {Raise} \cup {JobPage(n) : n \in {0, 5, MaxContainers}},
     linkedin : {Raise, JobPage(MaxContainers)},
     market_trends : {Raise, JobPage(1)}]

\* one page for each of the three skills searches and for the interview search
SkillsPage == [kind |-> "response", items |-> <<[title |-> "t", desc |-> <<"g", "i", "t">>]>>]

SalaryPage == [kind |-> "response", items |-> <<[title |-> "t", desc |-> RangeText]>>]

TrendsPage ==
    [kind |-> "response", items |-> <<[desc |-> <<"c", "l", "o", "u", "d", " ", "A", "I">>]>>]

InterviewPage ==
    [kind |-> "response",
     items |-> <<[title |-> "t", link |-> "u",
                  desc |-> <<"I", "n", "t", "e", "r", "v", "i", "e", "w", " ", "Q", "u",
                             "e", "s", "t", "i", "o", "n", "s">>]>>]

PageRaises == [kind |-> "raise", items |-> <<>>]

AnalyzedSkills ==
    [requirements : {PageRaises, SkillsPage}, salary_insights : {PageRaises, SalaryPage},
     trends : {PageRaises, TrendsPage}]

\* what the sources answer during one analyze_job_role call
AnalyzerFetches ==
    [layoffs : AnalyzedLayoffs, hiring : AnalyzedHiring, skills : AnalyzedSkills,
     interview : {PageRaises, InterviewPage}]

AnalyzedTitle == <<"D", "B", " ", "d", "e", "v">>

\* self.results of the analyzer when a call starts: {} on a new analyzer, or what an
\* earlier call on the same analyzer assigned (of the earlier calls, those whose skills
\* and interview searches raised)
AnalyzersBefore ==
    {EmptyResults}
    \cup {analyze_job_role(EmptyResults, AnalyzedTitle, f) :
             f \in {g \in AnalyzerFetches :
                       /\ g.skills = [requirements |-> PageRaises, salary_insights |-> PageRaises,
                                      trends |-> PageRaises]
                       /\ g.interview = PageRaises
                       /\ g.hiring.linkedin = Raise
                       /\ g.hiring.market_trends = Raise}}

InitAnalyzer ==
    InitFn("analyze_job_role",
           [self_results : AnalyzersBefore, job_title : {AnalyzedTitle}, o : AnalyzerFetches])

ApplyAnalyzer ==
    /\ ~applied
    /\ ret' = analyze_job_role(arg.self_results, arg.job_title, arg.o)
    /\ applied' = TRUE
    /\ UNCHANGED <<op, arg, cliVars>>

SpecAnalyzer == InitAnalyzer /\ [][ApplyAnalyzer]_vars

(***************************************************************************)
(* Properties                                                              *)
(***************************************************************************)
ResearchPcs == {"fetch", "summary", "display", "asksave", "saved"}

\* the first comma-separated field of a line, trimmed
FirstField(line) == Strip(Split(line)[1])

\* C1: while main() handles a line whose first comma-separated field is empty after
\* trimming (an empty line included), it is never inside generate_career_report nor
\* past it: the line is rejected before any fetcher is called.
C1_EmptyFirstFieldNeverFetches == FirstField(user_input) = <<>> => pc \notin ResearchPcs

C1_Witness ==
    /\ pc = "rejected"
    /\ user_input # <<>>
    /\ FirstField(user_input) = <<>>
    /\ results = EmptyDict

\* C2: parse_query is idempotent under re-joining: parsing the comma-joined fields of
\* parse_query(q) gives the same five fields, whatever the number of commas in q.
C2_ParseIdempotent == applied => parse_query(Join(ret)) = ret

C2_Witness ==
    /\ applied
    /\ Len(Split(arg)) > 5
    /\ ret[1] # <<>>
    /\ Join(ret) # arg

EmptyResult(key) == IF key = "skill_trends" THEN EmptyMapping ELSE <<>>

\* C3: when a fetch of generate_career_report raises, the entry of that source is the
\* empty list (the empty mapping for skill_trends), the call still stores all nine
\* entries and this query's summary, and save_career_report writes the JSON and the
\* HTML file.
C3_FailedSourceLeavesEmptyEntry ==
    lastFailed # "none" =>
        /\ results.map[lastFailed] = EmptyResult(lastFailed)
        /\ pc \in {"display", "asksave", "saved"} =>
              /\ Range(FetchOrder) \cup {"summary"} \subseteq Range(results.keys)
              /\ results.map["summary"].degree = fields[1]
              /\ results.map["summary"].total_sources_found =
                    Cardinality({i \in 1..Len(ListKeys) : results.map[ListKeys[i]] # <<>>})
                    \/ \E i \in 1..Len(ListKeys) : Len(results.map[ListKeys[i]]) > 1
        /\ pc = "saved" => {FileName(results, "json"), FileName(results, "html")} \subseteq files

C3_Witness ==
    /\ pc = "saved"
    /\ lastFailed = "skill_trends"
    /\ results.map["summary"].total_sources_found = 0
    /\ Cardinality(files) = 2

\* the responses in which there is nothing to extract
EmptyPages == Responses({}, 0)

\* C4 as claimed: for every fetcher of both tools the value returned when the fetch
\* raises is the value returned when the source responds and nothing is extracted.
C4_FailureEqualsNothingFound ==
    (applied /\ arg.kind = "raise") => \A o \in EmptyPages : ret = ApplyFetcher(op, o)

\* C4 as amended: the list fetchers of CareerResearchTool return the empty list when
\* the fetch raises, as they do when nothing is extracted; analyze_skill_trends then
\* returns the empty mapping but a mapping of three empty lists when nothing is
\* extracted, and search_indeed_jobs, search_linkedin_jobs and
\* search_job_market_trends return an error mapping, which no response yields.
C4_OnlyListFetchersHideFailure ==
    (applied /\ arg.kind = "raise") =>
        /\ op \in CareerListFetchers =>
              /\ ret = <<>>
              /\ \A o \in EmptyPages : ret = ApplyFetcher(op, o)
        /\ op = "analyze_skill_trends" =>
              /\ ret = EmptyMapping
              /\ \A o \in Outcomes(Items, MaxItems) :
                    o.kind = "response" => ApplyFetcher(op, o).has_keys
        /\ op \in JobFetchers =>
              /\ DOMAIN ret = {"error"}
              /\ \A o \in Outcomes(Items, MaxItems) :
                    o.kind = "response" => "error" \notin DOMAIN ApplyFetcher(op, o)

C4_Witness ==
    /\ applied
    /\ arg.kind = "raise"
    /\ op = "search_google_news"
    /\ ret = <<>>

\* no record in a fetcher's return value
NoRecords(name, v) ==
    CASE name \in CareerListFetchers -> v = <<>>
      [] name = "analyze_skill_trends" ->
            v.high_demand_skills = <<>> /\ v.emerging_skills = <<>> /\ v.traditional_skills = <<>>
      [] name = "search_indeed_jobs" -> "error" \in DOMAIN v \/ v.job_postings_found = 0
      [] name = "search_linkedin_jobs" -> "error" \in DOMAIN v \/ v.professional_opportunities = 0
      [] name = "search_job_market_trends" -> "error" \in DOMAIN v \/ v.trend_articles_found = 0

\* C5 as claimed: a fetcher that issues an HTTP GET extracts no record from a response
\* whose status is not 200.
C5_Non200YieldsNoRecord ==
    (applied /\ op \in HttpGetFetchers /\ arg.kind = "response" /\ arg.status # 200)
        => NoRecords(op, ret)

PositiveHits(articles) == IndicatorCount(AllContent(articles), PositiveIndicators)

NegativeHits(articles) == IndicatorCount(AllContent(articles), NegativeIndicators)

\* the first word of the text analyze_trend_content returns
LabelWord(r) ==
    CASE r.text = "Positive trend indicators" -> "Positive"
      [] r.text = "Negative trend indicators" -> "Negative"
      [] r.text = "Mixed trend indicators" -> "Mixed"
      [] r.text = "No trend data available" -> "No"

\* C6 as claimed: the classifier's label is Positive when the positive count exceeds
\* the negative one, Negative in the opposite case, and Neutral when the counts are
\* equal or the list of articles is empty.
C6_NeutralOnTieOrEmpty ==
    applied =>
        LabelWord(ret) = IF arg = <<>> \/ PositiveHits(arg) = NegativeHits(arg) THEN "Neutral"
                         ELSE IF PositiveHits(arg) > NegativeHits(arg) THEN "Positive"
                         ELSE "Negative"

\* C6 as amended: the text returned starts "Positive trend indicators" when the
\* positive count exceeds the negative one, "Negative trend indicators" in the
\* opposite case, is "Mixed trend indicators ..." when the counts are equal and
\* "No trend data available" when the list of articles is empty.
C6_MixedOnTieNoDataOnEmpty ==
    applied =>
        ret.text = IF arg = <<>> THEN "No trend data available"
                   ELSE IF PositiveHits(arg) > NegativeHits(arg) THEN "Positive trend indicators"
                   ELSE IF NegativeHits(arg) > PositiveHits(arg) THEN "Negative trend indicators"
                   ELSE "Mixed trend indicators"

C6_Witness ==
    /\ applied
    /\ arg # <<>>
    /\ PositiveHits(arg) = 1
    /\ NegativeHits(arg) = 1
    /\ ret.text = "Mixed trend indicators"

\* the places (article, word) of the articles' snippets where a word of ws occurs
Places(articles, ws) ==
    {p \in (1..Len(articles)) \X (1..MaxSnippetWords + 1) :
        /\ p[2] <= Len(articles[p[1]].snippet)
        /\ \E w \in ws : SubWord(w, LowerWord(articles[p[1]].snippet[p[2]]))}

\* the words of ws that occur somewhere in the articles' snippets
WordsPresent(articles, ws) ==
    {w \in ws : \E a \in 1..Len(articles) : \E i \in 1..Len(articles[a].snippet) :
                    SubWord(w, LowerWord(articles[a].snippet[i]))}

\* C7 as claimed: the counts are numbers of occurrences, a word that occurs k times
\* adding k, so that three occurrences of one positive word against one occurrence of
\* one negative word are classified positive.
C7_CountsOccurrences ==
    (applied /\ arg # <<>>) =>
        ret = TrendLabel(Cardinality(Places(arg, PositiveIndicators)),
                         Cardinality(Places(arg, NegativeIndicators)))

\* C7 as amended: the positive (negative) count is the number of distinct positive
\* (negative) vocabulary words that occur at least once in the concatenated text, a
\* word adding 1 however often it occurs; three occurrences of one positive word
\* against one occurrence of one negative word are a tie.
C7_CountsDistinctWords ==
    (applied /\ arg # <<>>) =>
        ret = TrendLabel(Cardinality(WordsPresent(arg, PositiveIndicators)),
                         Cardinality(WordsPresent(arg, NegativeIndicators)))

C7_Witness ==
    /\ applied
    /\ Cardinality(Places(arg, PositiveIndicators)) = 3
    /\ Cardinality(WordsPresent(arg, PositiveIndicators)) = 1
    /\ Cardinality(Places(arg, NegativeIndicators)) = 1
    /\ ret.text = "Mixed trend indicators"

\* n = len(career_opportunities) + len(job_market_trends) + len(salary_information)
Indicators(d) ==
    Len(d.map["career_opportunities"]) + Len(d.map["job_market_trends"])
    + Len(d.map["salary_information"])

\* C8: market_outlook depends on n only: "Very Positive" iff n > 15, "Positive" iff
\* 8 < n <= 15, "Moderate" iff 3 < n <= 8, "Limited Data" iff n <= 3.
C8_OutlookByThresholds ==
    applied =>
        ret.market_outlook = IF Indicators(arg) > 15 THEN "Very Positive"
                             ELSE IF Indicators(arg) > 8 THEN "Positive"
                             ELSE IF Indicators(arg) > 3 THEN "Moderate"
                             ELSE "Limited Data"

C8_Witness ==
    /\ applied
    /\ Indicators(arg) = 16
    /\ ret.market_outlook = "Very Positive"

ListTotal(d) ==
    Len(d.map["career_opportunities"]) + Len(d.map["required_skills"])
    + Len(d.map["job_market_trends"]) + Len(d.map["salary_information"])
    + Len(d.map["learning_resources"]) + Len(d.map["community_discussions"])
    + Len(d.map["linkedin_insights"]) + Len(d.map["quora_insights"])

\* C9: in every report that generate_career_report has returned, also after earlier
\* queries of the session, summary.total_sources_found is the sum of the lengths of the
\* eight record lists of that report; when no list holds more than one record it is the
\* number of sources with a non-empty result.
C9_TotalIsSumOfLatestLists ==
    report.returned =>
        LET d == report.contents
        IN  /\ d.map["summary"].total_sources_found = ListTotal(d)
            /\ (\A i \in 1..Len(ListKeys) : Len(d.map[ListKeys[i]]) <= 1) =>
                  d.map["summary"].total_sources_found =
                      Cardinality({i \in 1..Len(ListKeys) : d.map[ListKeys[i]] # <<>>})

C9_Witness ==
    /\ pc = "display"
    /\ "summary" \in Range(results.map["summary"].career_areas_covered)
    /\ results.map["summary"].total_sources_found = 3
    /\ results.map["quora_insights"] # <<>>

\* the report of a just constructed tool for the same fields and the same fetch results
ReportOfNewTool(d, f) ==
    LET fetched == [keys |-> FetchOrder, map |-> [d.map EXCEPT !["summary"] = NoSummary]]
    IN  DictSet(fetched, "summary", _generate_career_summary(fetched, f))

\* C10 as claimed: the report of a query depends on its fields and its fetch results
\* only: it is the report a just constructed tool gives for them, also when the call
\* follows earlier queries of the session.
C10_ReportIndependentOfHistory ==
    pc = "display" => results = ReportOfNewTool(results, fields)

\* C11 as claimed: once generate_career_report has returned a report, the contents of
\* that report stay what they were on return, whatever runs later: display, save or a
\* generate_career_report call for another query on the same tool.
C11_ReturnedReportNeverChanges == report.returned => results = report.contents

\* what str.split(',') and str.strip() leave of the i-th field of a query
TrimmedField(query, i) == Strip(Split(query)[i])

\* C12 as claimed: for a query with fewer than five comma-separated fields parse_query
\* returns every present field trimmed in its position and the empty string in every
\* missing position.
C12_MissingFieldsEmpty ==
    (applied /\ Len(Split(arg)) < 5) =>
        \A i \in 1..5 : ret[i] = IF i <= Len(Split(arg)) THEN TrimmedField(arg, i) ELSE <<>>

\* C12 as amended: for a query with fewer than five comma-separated fields parse_query
\* returns every present field trimmed in its position, the empty string in every
\* missing position among the second, third and fourth, and "2025" as the year.
C12_MissingYearIs2025 ==
    (applied /\ Len(Split(arg)) < 5) =>
        /\ \A i \in 1..4 : ret[i] = IF i <= Len(Split(arg)) THEN TrimmedField(arg, i) ELSE <<>>
        /\ ret[5] = <<"2", "0", "2", "5">>

C12_Witness ==
    /\ applied
    /\ Len(Split(arg)) = 2
    /\ ret[2] # <<>>
    /\ ret[2] # Split(arg)[2]
    /\ ret[3] = <<>>
    /\ ret[5] = <<"2", "0", "2", "5">>

\* C13 as claimed: a three-field query "s,t,y" parses to first field s, second field t
\* and year y (each trimmed).
C13_ThirdFieldIsYear ==
    (applied /\ Len(Split(arg)) = 3) =>
        /\ ret[1] = TrimmedField(arg, 1)
        /\ ret[2] = TrimmedField(arg, 2)
        /\ ret[5] = TrimmedField(arg, 3)

\* C13 as amended: a three-field query "s,t,y" parses to degree s, experience t and
\* skills y (each trimmed), an empty job market and the year "2025" whatever y is; the
\* year equals y only when y is "2025", as in "dell,layoff,2025".
C13_ThirdFieldIsSkills ==
    (applied /\ Len(Split(arg)) = 3) =>
        ret = <<TrimmedField(arg, 1), TrimmedField(arg, 2), TrimmedField(arg, 3), <<>>,
                <<"2", "0", "2", "5">>>>

C13_Witness ==
    /\ applied
    /\ arg \in SampleQueries
    /\ ret = <<<<"d">>, <<"l">>, <<"2", "0", "2", "5">>, <<>>, <<"2", "0", "2", "5">>>>

\* the two names a save for the degree s has when the stem is parts
Names(parts) == {[stem |-> parts, ext |-> "json"], [stem |-> parts, ext |-> "html"]}

\* C14 as claimed: after the save of a query with first field s the files written are
\* <s with spaces replaced by underscores>_research_report_<timestamp>.json and the
\* same name with .html.
C14_NamedSlugResearchReport ==
    pc = "saved" =>
        Names(<<SpacesToUnderscores(fields[1]), <<"research_report">>, <<"timestamp">>>>)
            \subseteq files

\* C14 as amended: after the save of a query with first field s the files written are
\* career_report_<s with spaces replaced by underscores>_<timestamp>.json and the same
\* name with .html; files are written in such pairs only, and none for a first field
\* with a path separator in it, where the save ends in the handler of main instead.
C14_NamedCareerReportSlug ==
    /\ [](/\ pc = "saved" =>
               Names(<<<<"career_report">>, SpacesToUnderscores(fields[1]), <<"timestamp">>>>)
                   \subseteq files
          /\ \A f \in files :
                /\ f.stem[1] = <<"career_report">>
                /\ "/" \notin Range(f.stem[2])
                /\ Names(f.stem) \subseteq files)
    /\ [][(pc = "asksave" /\ "/" \in Range(fields[1])) => (files' = files /\ pc' # "saved")]_vars

C14_Witness ==
    /\ pc = "saved"
    /\ fields[1] = <<"a", " ", "a">>
    /\ files = Names(<<<<"career_report">>, <<"a", "_", "a">>, <<"timestamp">>>>)

C16_OnlyExitTokensEndLoop ==
    [][/\ (pc = "prompt" /\ pc' \in {"exited", "rejected", "fetch"}) =>
             (pc' = "exited" <=>
                 Lower(user_input') \in {<<"q", "u", "i", "t">>, <<"e", "x", "i", "t">>, <<"q">>})
       /\ pc' = "exited" =>
             pc \in {"prompt", "exited"} /\ results' = results /\ files' = files /\ calls' = calls
      ]_vars

C16_Witness ==
    /\ pc = "exited"
    /\ user_input = <<"E", "x", "i", "t">>
    /\ results # EmptyDict
    /\ files = {}

\* C17: when an exception other than a keyboard interrupt has been raised inside an
\* iteration and main's handler reports it, the next step of the loop is the prompt,
\* with the tool's results and the files as they were: the loop is not left from there.
C17_ReportedExceptionReturnsToPrompt ==
    [][pc = "failed" => pc' = "prompt" /\ results' = results /\ files' = files]_vars

C17_Witness ==
    /\ pc = "failed"
    /\ fields[1] = <<"a", "/", "a">>
    /\ Has(results, "summary")
    /\ files = {}

IsPrefix(a, b) == Len(a) <= Len(b) /\ a = SubSeq(b, 1, Len(a))

\* the order of the nine sources
NineSources ==
    <<"career_opportunities", "required_skills", "job_market_trends", "salary_information",
      "learning_resources", "community_discussions", "linkedin_insights", "quora_insights",
      "skill_trends">>

\* C18: generate_career_report stores the results of the nine sources one at a time in
\* the order career opportunities, required skills, job market trends, salary, learning
\* resources, community discussions, LinkedIn, Quora, skill trends (on a new tool the
\* keys stored so far are a prefix of that order); a step stores the result of one
\* source only, the one whose turn it is, and the summary changes only after the ninth
\* result is stored.
C18_OneSourceAtATimeInOrder ==
    /\ [](~report.returned =>
            /\ IsPrefix(results.keys, NineSources)
            /\ pc = "fetch" => Len(results.keys) = idx - 1
            /\ pc = "summary" => results.keys = NineSources)
    /\ [][\A k \in DOMAIN results.map :
              results'.map[k] # results.map[k] =>
                  IF k = "summary"
                  THEN pc = "summary" /\ idx = 9 /\ pc' = "display"
                  ELSE /\ pc = "fetch"
                       /\ k = NineSources[idx]
                       /\ (idx' = idx + 1 /\ pc' = "fetch") \/ (idx = 9 /\ pc' = "summary")
         ]_vars

C18_Witness ==
    /\ pc = "fetch"
    /\ ~report.returned
    /\ results.keys = SubSeq(NineSources, 1, 4)
    /\ lastFailed = "salary_information"
    /\ results.map["job_market_trends"] # <<>>

\* the number of divs open after the first n tags
OpenDivs(tags, n) ==
    Cardinality({i \in 1..n : tags[i] = "div"}) - Cardinality({i \in 1..n : tags[i] = "/div"})

\* C19 as claimed: whichever of the three hiring-trend sources failed, in the HTML of
\* create_hiring_trends_section no closing div comes without an open one and no div is
\* left open at the end.
C19_DivsBalanced ==
    applied =>
        /\ \A n \in 1..Len(ret) : OpenDivs(ret, n) >= 0
        /\ OpenDivs(ret, Len(ret)) = 0

\* the finding about the list under key, when the list is not empty
CountLine(d, key, line) ==
    IF d.map[key] # <<>> THEN <<[line |-> line, n |-> Len(d.map[key]), skills |-> <<>>]>>
    ELSE <<>>

\* C20 as claimed: key_findings of a returned report holds, in this order, the line of
\* the career opportunities, of the learning resources, of the community discussions
\* and of the high-demand skills, each iff its list is not empty and each with the
\* length of its list.
C20_SkillsLineLastWithLength ==
    report.returned =>
        LET d == report.contents
            hds == d.map["skill_trends"].high_demand_skills
        IN  d.map["summary"].key_findings =
                CountLine(d, "career_opportunities", "career opportunity articles")
                \o CountLine(d, "learning_resources", "Available learning resources")
                \o CountLine(d, "community_discussions", "Active community discussions")
                \o (IF hds # <<>>
                    THEN <<[line |-> "High demand skills identified", n |-> Len(hds),
                            skills |-> <<>>]>>
                    ELSE <<>>)

\* C20 as amended: key_findings of a returned report holds, in this order, the line of
\* the career opportunities, of the high-demand skills, of the learning resources and
\* of the community discussions, each iff its list in that report is not empty; the
\* three other lines give the length of their list, the line of the high-demand skills
\* gives the names in the list.
C20_SkillsLineSecondWithNames ==
    report.returned =>
        LET d == report.contents
            hds == d.map["skill_trends"].high_demand_skills
        IN  d.map["summary"].key_findings =
                CountLine(d, "career_opportunities", "career opportunity articles")
                \o (IF hds # <<>>
                    THEN <<[line |-> "High demand skills identified", n |-> 0, skills |-> hds]>>
                    ELSE <<>>)
                \o CountLine(d, "learning_resources", "Available learning resources")
                \o CountLine(d, "community_discussions", "Active community discussions")

C20_Witness ==
    /\ pc = "display"
    /\ calls = 1
    /\ Len(results.map["summary"].key_findings) = 3
    /\ results.map["summary"].key_findings[2].skills = <<"Programming Languages">>
    /\ results.map["summary"].key_findings[3].line = "Active community discussions"
    /\ results.map["learning_resources"] = <<>>

\* C22 as claimed: parse_query returns "2025" as the year when the year field is left
\* blank, both when the query has no fifth field and when its fifth field is empty or
\* holds blanks only.
C22_BlankYearIs2025 ==
    (applied /\ (Len(Split(arg)) < 5 \/ Strip(Split(arg)[5]) = <<>>)) =>
        ret[5] = <<"2", "0", "2", "5">>

\* C26: get_impact_assessment returns exactly one label for counts 0 <= relevant <= total:
\* the no-data label iff total = 0, and for a positive total High iff
\* 100*relevant > 20*total, Moderate iff 10*total < 100*relevant <= 20*total, Low iff
\* 0 < 100*relevant <= 10*total, Minimal iff relevant = 0; and the assessment that
\* get_layoff_data stores is the label of the number of relevant layoffs and the number
\* of recent layoffs, the first never larger than the second.
C26_ImpactByExactThresholds ==
    applied =>
        /\ op = "get_impact_assessment" =>
              LET r == arg.relevant_count
                  t == arg.total_count
              IN  /\ ret \in {NoLayoffData, HighImpact, ModerateImpact, LowImpact, MinimalImpact}
                  /\ ret = NoLayoffData <=> t = 0
                  /\ ret = HighImpact <=> (t # 0 /\ 100 * r > 20 * t)
                  /\ ret = ModerateImpact <=> (t # 0 /\ 10 * t < 100 * r /\ 100 * r <= 20 * t)
                  /\ ret = LowImpact <=> (t # 0 /\ 0 < 100 * r /\ 100 * r <= 10 * t)
                  /\ ret = MinimalImpact <=> (t # 0 /\ r = 0)
        /\ (op = "get_layoff_data" /\ "error" \notin DOMAIN ret) =>
              LET r == Len(ret.job_relevance.relevant_layoffs)
                  t == Len(ret.recent_layoffs)
              IN  /\ r <= t
                  /\ t <= 10
                  /\ \A i \in 1..r : \E j \in 1..t :
                        ret.job_relevance.relevant_layoffs[i] = ret.recent_layoffs[j]
                  /\ ret.job_relevance.impact_assessment
                        = IF t = 0 THEN NoLayoffData
                          ELSE IF 100 * r > 20 * t THEN HighImpact
                          ELSE IF 100 * r > 10 * t THEN ModerateImpact
                          ELSE IF r > 0 THEN LowImpact
                          ELSE MinimalImpact

\* a page with more rows than the code reads, two of the ten layoffs read relevant to
\* the title: 20 per cent is not above the threshold of High
C26_Witness ==
    /\ applied
    /\ op = "get_layoff_data"
    /\ "error" \notin DOMAIN ret
    /\ Len(arg.o.rows) > 11
    /\ Len(ret.recent_layoffs) = 10
    /\ Len(ret.job_relevance.relevant_layoffs) = 2
    /\ ret.job_relevance.impact_assessment = ModerateImpact

\* term occurs in text when the case of the letters of text is ignored
OccursIgnoringCase(term, text) ==
    \E i \in 0..(Len(text) - Len(term)) : \A j \in 1..Len(term) : LowerChar(text[i + j]) = term[j]

\* the terms of a vocabulary that occur in the contents joined by blanks, in the order of
\* the vocabulary
PresentTerms(vocabulary, content_list) ==
    LET text == JoinWithBlank([i \in 1..Len(content_list) |-> content_list[i].content])
        present(term) == OccursIgnoringCase(term, text)
    IN  SelectSeq(vocabulary, present)

NoDuplicates(xs) == \A i, j \in 1..Len(xs) : xs[i] = xs[j] => i = j

\* C23: extract_skills_from_content returns, for the technical and for the soft
\* vocabulary, exactly the terms that occur in the concatenated content when case is
\* ignored, in vocabulary order and without duplicates; total_skills_identified is the
\* sum of the two lengths; for an empty content list both lists are empty and the
\* total is 0.
C23_ExtractsPresentTerms ==
    (applied /\ op = "extract_skills_from_content") =>
        /\ ret.technical_skills = PresentTerms(tech_skills, arg)
        /\ ret.soft_skills = PresentTerms(soft_skills, arg)
        /\ NoDuplicates(ret.technical_skills)
        /\ NoDuplicates(ret.soft_skills)
        /\ ret.total_skills_identified = Len(ret.technical_skills) + Len(ret.soft_skills)
        /\ arg = <<>> =>
              /\ ret.technical_skills = <<>>
              /\ ret.soft_skills = <<>>
              /\ ret.total_skills_identified = 0

\* "Machine" and "learning" in two descriptions: the term found lies across both, in
\* another case, and "r" is found inside a word
C23_Witness ==
    /\ applied
    /\ op = "extract_skills_from_content"
    /\ Len(arg) = 2
    /\ arg[1].content = <<"M", "a", "c", "h", "i", "n", "e">>
    /\ arg[2].content = <<"l", "e", "a", "r", "n", "i", "n", "g">>
    /\ ret.technical_skills = <<<<"m", "a", "c", "h", "i", "n", "e", " ", "l", "e", "a", "r", "n", "i", "n", "g">>,
                                <<"r">>>>
    /\ ret.total_skills_identified = 2

\* the number of places of xs that hold x
CountOf(xs, x) == Cardinality({i \in 1..Len(xs) : xs[i] = x})

\* C27 as claimed: categorize_skills loses no skill: every technical skill that
\* extract_skills_from_content found is in exactly one of the categories programming,
\* databases, cloud and analytics, the sizes of the four sum to the number of technical
\* skills found, and the category soft_skills is the list of soft skills found.
C27_CategoriesLoseNoSkill ==
    (applied /\ op = "search_skills_requirements" /\ "error" \notin DOMAIN ret) =>
        LET tech == ret.extracted_skills.technical_skills
            c == ret.skill_categories
            all == c.programming \o c.databases \o c.cloud \o c.analytics
        IN  /\ \A i \in 1..Len(tech) : CountOf(all, tech[i]) = 1
            /\ Len(all) = Len(tech)
            /\ c.soft_skills = ret.extracted_skills.soft_skills

\* C28: in the result of JobMarketAnalyzer.analyze_skill_trends, trending_skills lists
\* only emerging keywords with a positive count, no keyword twice, in non-increasing
\* order of count; when it is not empty, trend_summary names the keyword and the count
\* of its first entry, also when several keywords have the highest count; when it is
\* empty, the summary is the text that no clear trending skills were identified.
C28_SummaryNamesFirstTrendingSkill ==
    (applied /\ "error" \notin DOMAIN ret) =>
        LET trending == ret.trending_skills
        IN  /\ \A i \in 1..Len(trending) :
                  /\ trending[i][1] \in Range(emerging_keywords)
                  /\ trending[i][2] > 0
            /\ NoDuplicates([i \in 1..Len(trending) |-> trending[i][1]])
            /\ \A i \in 1..(Len(trending) - 1) : trending[i][2] >= trending[i + 1][2]
            /\ trending # <<>> =>
                  /\ ret.trend_summary.text = "Most mentioned emerging skill"
                  /\ ret.trend_summary.keyword = trending[1][1]
                  /\ ret.trend_summary.count = trending[1][2]
            /\ trending = <<>> =>
                  ret.trend_summary.text = "No clear trending skills identified"

\* "ai" and "cloud" with the same count: the keyword that the code counts first is the
\* first entry and the one the summary names
C28_Witness ==
    /\ applied
    /\ "error" \notin DOMAIN ret
    /\ ret.trending_skills = <<<<<<"a", "i">>, 1>>, <<<<"c", "l", "o", "u", "d">>, 1>>>>
    /\ ret.trend_summary.keyword = <<"a", "i">>
    /\ ret.trend_summary.count = 1

\* the fetchers of CareerResearchTool that scrape a page of search results
HtmlListSources ==
    {"search_indeed_insights", "search_linkedin_insights", "search_coursera_skills",
     "search_glassdoor_salaries", "search_quora_answers"}

\* the records that a hiring-trend fetcher of JobMarketAnalyzer returns
StoredSamples(name, v) ==
    CASE name = "search_indeed_jobs" -> v.sample_jobs
      [] name = "search_linkedin_jobs" -> v.sample_opportunities
      [] name = "search_job_market_trends" -> v.market_insights

\* C24 as claimed: for every HTML search source the returned records come from distinct
\* selected containers that have a title and a link: every record has a title and a
\* link value that is not missing, and there are at most as many records as selected
\* containers and as the cap of the source.
C24_RecordsHaveTitleAndLink ==
    applied =>
        /\ op \in HtmlListSources =>
              /\ \A i \in 1..Len(ret) :
                    ret[i].title \notin {"none", "None"} /\ ret[i].link \notin {"none", "None"}
              /\ Len(ret) <= Len(arg.items)
              /\ Len(ret) <= ScrapeCap
        /\ (op \in JobFetchers /\ "error" \notin DOMAIN ret) =>
              LET records == StoredSamples(op, ret)
              IN  /\ \A i \in 1..Len(records) :
                        /\ records[i].title \notin {"none", "None"}
                        /\ records[i].link \notin {"none", "None"}
                  /\ Len(records) <= Len(arg.items)
                  /\ Len(records) <= IndeedCap

\* C21 as claimed: the key_factors and the overall_sentiment of the market outlook in
\* the result of analyze_job_role are those of the layoff_data and the hiring_trends
\* collected by that call, not those of an empty mapping and not those of an earlier
\* analysis of the same analyzer.
C21_OutlookFromThisCallsData ==
    applied =>
        LET own == assess_market_outlook([layoff_data |-> ret.layoff_data,
                                          hiring_trends |-> ret.hiring_trends])
            outlook == ret.market_analysis.market_outlook
        IN  /\ outlook.key_factors = own.key_factors
            /\ outlook.overall_sentiment = own.overall_sentiment

HiringLabels ==
    {"Strong hiring activity", "Moderate hiring activity", "Limited hiring activity",
     "Minimal hiring activity"}

NetworkingLabels ==
    {"High networking potential", "Moderate networking potential",
     "Limited networking opportunities"}

\* the pages of up to MaxContainers containers, and an exception
PostingOutcomes == {Raise} \cup {JobPage(n) : n \in 0..MaxContainers}

\* C25 as claimed: in every result job_postings_found is at most 10 and
\* professional_opportunities at most 8, and every label of assess_hiring_trend, every
\* label of assess_networking_potential and the outlook factor "Positive - Strong job
\* posting activity" is what the analyzer returns for some fetch result.
C25_CountsCappedAndLabelsReachable ==
    applied =>
        /\ "error" \notin DOMAIN ret.hiring_trends.indeed =>
              ret.hiring_trends.indeed.job_postings_found <= 10
        /\ "error" \notin DOMAIN ret.hiring_trends.linkedin =>
              ret.hiring_trends.linkedin.professional_opportunities <= 8
        /\ \A label \in HiringLabels :
              \E o \in PostingOutcomes :
                 LET indeed == search_indeed_jobs(o)
                 IN  "error" \notin DOMAIN indeed /\ indeed.trend_assessment = label
        /\ \A label \in NetworkingLabels :
              \E o \in PostingOutcomes :
                 LET linkedin == search_linkedin_jobs(o)
                 IN  "error" \notin DOMAIN linkedin /\ linkedin.networking_potential = label
        /\ \E o \in PostingOutcomes :
              LET hiring == [indeed |-> search_indeed_jobs(o)]
                  outlook == assess_market_outlook([hiring_trends |-> hiring])
              IN  \E i \in 1..Len(outlook.key_factors) :
                     outlook.key_factors[i] = StrongPostingFactor

\* C29 as claimed: once the input has ended, so that from some point on no read of a
\* prompt returns a line (each raises an end-of-input error), the loop of main() stops
\* instead of prompting forever.
C29_ExhaustedInputEndsLoop ==
    <>[][~ReadsLine]_vars => <>(pc \in {"exited", "interrupted"})

====
